--------------------------- MODULE BridgeAdminProofs ---------------------------
(***************************************************************************)
(* Proofs about modules BridgeAdmin and LiquidityPool, for every value of  *)
(* their constants: the governing calls of BridgeWatchContract and the     *)
(* monitor of liquidity pools that it keeps.                               *)
(***************************************************************************)
EXTENDS BridgeAdmin, FiniteSetTheorems, SumTheorems, TLAPS

CONSTANTS Pool, Reserves, Volumes, EntryPrices, Precision, Baseline, MaxSnapshots,
    MaxBuckets, Day, MaxRecords

VARIABLES ring, daily, pools, log

\* The two share the clock.
Liquidity == INSTANCE LiquidityPool

\* The code to roll back to is the one the last upgrade replaced.
TargetTracked ==
    LET n == Len(upgrade_history)
    IN  rollback_target = IF n < 2 THEN NoHash ELSE upgrade_history[n].from_wasm_hash

\* A proposal can be what UpgradeTrail and TwoPersonEmergency need of it: what it
\* installs, how many approvals it asks for, and that its approvals are distinct.
ProposalSound ==
    LET p == pending_upgrade
    IN  /\ \A j, k \in DOMAIN p.approvals : p.approvals[j] = p.approvals[k] => j = k
        /\ HasUpgrade =>
              /\ p.new_wasm_hash \in Hash
              /\ p.is_rollback =>
                    p.new_wasm_hash = rollback_target /\ Len(upgrade_history) >= 2
              /\ p.emergency => p.required_approvals >= 2
              /\ ~p.emergency => p.execute_after = p.proposed_at + UpgradeTimelock

\* The end of the pause is counted from its last beginning.
PauseTimed == global_paused => unpause_available_at = paused_at + UnpauseTimelock

\* The inductive invariant.
IInv == TypeOK /\ RolesAgree /\ UpgradeTrail /\ TargetTracked /\ ProposalSound /\ PauseTimed

\* What the parts of the invariant say of the upgrades depends on these variables only.
LEMMA UpgradesFramed ==
    ASSUME IInv, UNCHANGED upgradeVars
    PROVE  UpgradeTrail' /\ TargetTracked' /\ ProposalSound'
BY DEF IInv, UpgradeTrail, TargetTracked, ProposalSound, HasUpgrade, upgradeVars, codeVars

\* A fresh contract meets the invariant.
LEMMA InitIInv == Init => IInv
<1> SUFFICES ASSUME Init PROVE IInv
  OBVIOUS
<1> USE BridgeAdminAssumption
<1>1. TypeOK
  <2>1. NoTransfer \in PendingAdminTransfer
    BY DEF NoTransfer, PendingAdminTransfer
  <2>2. NoUpgrade \in UpgradeProposal
    <3>1. <<>> \in Seq(Address)
      OBVIOUS
    <3>2. QED
      BY <3>1 DEF NoUpgrade, UpgradeProposal
  <2>3. <<>> \in Seq(UpgradeRecord)
    OBVIOUS
  <2>4. role_key \in [Address -> SUBSET AdminRole] /\ roles_list \subseteq RoleAssignment
    BY DEF Init
  <2>5. now \in 0 .. MaxNow /\ upgrade_counter \in 0 .. MaxProposals
    BY DEF Init
  <2>6. /\ contract_version \in Nat \ {0} /\ paused_at \in Nat /\ unpause_available_at \in Nat
        /\ admin \in Address /\ pause_guardian \subseteq Address
        /\ current_hash \in Hash \cup {NoHash} /\ rollback_target \in Hash \cup {NoHash}
    BY DEF Init
  <2>7. global_paused \in BOOLEAN
    BY Zenon DEF Init
  <2>8. /\ pending_transfer \in PendingAdminTransfer /\ pending_upgrade \in UpgradeProposal
        /\ upgrade_history \in Seq(UpgradeRecord)
    BY <2>1, <2>2, <2>3 DEF Init
  <2>9. QED
    BY <2>4, <2>5, <2>6, <2>7, <2>8, Zenon DEF TypeOK
<1>2. RolesAgree /\ PauseTimed
  BY DEF Init, RolesAgree, PauseTimed
<1>3. UpgradeTrail /\ TargetTracked
  BY DEF Init, UpgradeTrail, TargetTracked
<1>4. ProposalSound
  BY DEF Init, ProposalSound, HasUpgrade, NoUpgrade
<1>5. QED
  BY <1>1, <1>2, <1>3, <1>4 DEF IInv
-----------------------------------------------------------------------------
\* Arithmetic of the thresholds.
LEMMA HalfPositive == \A n \in Nat \ {0} : CeilDiv(n, 2) \in Nat \ {0}
BY DEF CeilDiv

\* The emergency threshold is at least two.
LEMMA EmergencyAtLeastTwo ==
    \A n \in Nat : n >= 2 => EmergencyThreshold(n) \in Nat /\ EmergencyThreshold(n) >= 2
<1> SUFFICES ASSUME NEW n \in Nat, n >= 2
             PROVE  EmergencyThreshold(n) \in Nat /\ EmergencyThreshold(n) >= 2
  OBVIOUS
<1>1. CeilDiv(n, 2) \in Nat /\ CeilDiv(n, 2) >= 1
  BY DEF CeilDiv
<1>2. CeilDiv(2 * n, 3) \in Nat
  BY DEF CeilDiv
<1>3. QED
  BY <1>1, <1>2 DEF EmergencyThreshold

\* There are finitely many governors, and at least one.
LEMMA GovernorsCounted == TypeOK => Cardinality(Governors) \in Nat \ {0}
<1> SUFFICES ASSUME TypeOK PROVE Cardinality(Governors) \in Nat \ {0}
  OBVIOUS
<1>1. Governors \in SUBSET Address /\ Governors # {}
  BY DEF Governors, TypeOK
<1>2. IsFiniteSet(Governors)
  BY <1>1, BridgeAdminAssumption, FS_Subset
<1>3. QED
  BY <1>1, <1>2, FS_CardinalityType, FS_EmptySet

\* Two different members make a finite set of at least two.
LEMMA TwoMembers ==
    ASSUME NEW S, IsFiniteSet(S), NEW a \in S, NEW b \in S, a # b
    PROVE  Cardinality(S) >= 2
<1>1. IsFiniteSet({a}) /\ Cardinality({a}) = 1
  BY FS_Singleton
<1>2. Cardinality({a} \cup {b}) = 2
  BY <1>1, FS_AddElement
<1>3. {a} \cup {b} \in SUBSET S
  OBVIOUS
<1>4. Cardinality({a} \cup {b}) <= Cardinality(S)
  BY <1>3, FS_Subset
<1>5. Cardinality(S) \in Nat
  BY FS_CardinalityType
<1>6. QED
  BY <1>2, <1>4, <1>5
-----------------------------------------------------------------------------
\* Granting or revoking a role keeps the invariant.
LEMMA RoleStep ==
    ASSUME IInv, NEW caller \in Address, AssignRoles(caller)
    PROVE  IInv'
<1> USE BridgeAdminAssumption
<1>1. PICK a \in Appointees, role \in AdminRole :
          GrantRole(caller, a, role) \/ RevokeRole(caller, a, role)
  BY DEF AssignRoles
<1>2. /\ UNCHANGED <<now, admin, pauseVars, pending_transfer, upgradeVars>>
      /\ \/ /\ role_key' = [role_key EXCEPT ![a] = @ \cup {role}]
            /\ roles_list' = roles_list \cup {[address |-> a, role |-> role]}
         \/ /\ role_key' = [role_key EXCEPT ![a] = @ \ {role}]
            /\ roles_list' = roles_list \ {[address |-> a, role |-> role]}
  BY <1>1 DEF GrantRole, RevokeRole
<1>3. role_key' \in [Address -> SUBSET AdminRole] /\ roles_list' \subseteq RoleAssignment
  <2>1. role_key \in [Address -> SUBSET AdminRole] /\ roles_list \subseteq RoleAssignment
    BY DEF IInv, TypeOK
  <2>2. [address |-> a, role |-> role] \in RoleAssignment
    BY DEF RoleAssignment
  <2>3. role_key[a] \cup {role} \in SUBSET AdminRole /\ role_key[a] \ {role} \in SUBSET AdminRole
    BY <2>1
  <2>4. QED
    BY <1>2, <2>1, <2>2, <2>3
<1>4. TypeOK'
  BY <1>2, <1>3 DEF IInv, TypeOK, pauseVars, upgradeVars, codeVars
<1>5. RolesAgree'
  <2> SUFFICES ASSUME NEW b \in Address, NEW r \in AdminRole
               PROVE  r \in role_key'[b] <=> [address |-> b, role |-> r] \in roles_list'
    BY DEF RolesAgree
  <2>1. r \in role_key[b] <=> [address |-> b, role |-> r] \in roles_list
    BY DEF IInv, RolesAgree
  <2>2. [address |-> b, role |-> r] = [address |-> a, role |-> role] <=> b = a /\ r = role
    OBVIOUS
  <2>3. QED
    BY <1>2, <2>1, <2>2 DEF IInv, TypeOK
<1>6. PauseTimed'
  BY <1>2 DEF IInv, PauseTimed, pauseVars
<1>7. QED
  BY <1>2, <1>4, <1>5, <1>6, UpgradesFramed DEF IInv

\* Pausing and resuming keep the invariant.
LEMMA PauseStep ==
    ASSUME IInv, NEW caller \in Address, Pause(caller)
    PROVE  IInv'
<1> USE BridgeAdminAssumption
<1>1. UNCHANGED <<now, admin, roleVars, pending_transfer, upgradeVars>>
  BY DEF Pause, EmergencyPause, Unpause, SetPauseGuardian
<1>2. /\ global_paused' \in BOOLEAN /\ paused_at' \in Nat /\ unpause_available_at' \in Nat
      /\ pause_guardian' \subseteq Address
  <2>1. /\ global_paused \in BOOLEAN /\ paused_at \in Nat /\ unpause_available_at \in Nat
        /\ pause_guardian \subseteq Address
        /\ now \in Nat /\ now + UnpauseTimelock \in Nat
    BY DEF IInv, TypeOK
  <2>2. CASE EmergencyPause(caller)
    BY <2>1, <2>2 DEF EmergencyPause
  <2>3. CASE Unpause(caller)
    BY <2>1, <2>3 DEF Unpause
  <2>4. CASE \E guardian \in Nominees : SetPauseGuardian(caller, guardian)
    BY <2>1, <2>4 DEF SetPauseGuardian
  <2>5. QED
    BY <2>2, <2>3, <2>4 DEF Pause
<1>3. TypeOK'
  BY <1>1, <1>2 DEF IInv, TypeOK, roleVars, upgradeVars, codeVars
<1>4. RolesAgree'
  BY <1>1 DEF IInv, RolesAgree, roleVars
<1>5. PauseTimed'
  BY DEF Pause, EmergencyPause, Unpause, SetPauseGuardian, IInv, PauseTimed
<1>6. QED
  BY <1>1, <1>3, <1>4, <1>5, UpgradesFramed DEF IInv

\* The steps of an admin handover keep the invariant.
LEMMA HandoverStep ==
    ASSUME IInv, NEW caller \in Address, Handover(caller)
    PROVE  IInv'
<1> USE BridgeAdminAssumption
<1>1. UNCHANGED <<now, roleVars, pauseVars, upgradeVars>>
  BY DEF Handover, ProposeAdminTransfer, AcceptAdminTransfer, CancelAdminTransfer
<1>2. admin' \in Address /\ pending_transfer' \in PendingAdminTransfer
  BY DEF Handover, ProposeAdminTransfer, AcceptAdminTransfer, CancelAdminTransfer, IInv,
         TypeOK, PendingAdminTransfer, NoTransfer
<1>3. TypeOK'
  BY <1>1, <1>2 DEF IInv, TypeOK, roleVars, pauseVars, upgradeVars, codeVars
<1>4. RolesAgree' /\ PauseTimed'
  BY <1>1 DEF IInv, RolesAgree, PauseTimed, roleVars, pauseVars
<1>5. QED
  BY <1>1, <1>3, <1>4, UpgradesFramed DEF IInv

\* What every upgrade call leaves alone, and what that leaves to prove.
LEMMA UpgradeFrame ==
    ASSUME IInv, UNCHANGED <<now, admin, roleVars, pauseVars, pending_transfer>>,
           pending_upgrade' \in UpgradeProposal, upgrade_counter' \in 0 .. MaxProposals,
           contract_version' \in Nat \ {0}, current_hash' \in Hash \cup {NoHash},
           rollback_target' \in Hash \cup {NoHash},
           upgrade_history' \in Seq(UpgradeRecord)
    PROVE  TypeOK' /\ RolesAgree' /\ PauseTimed'
BY DEF IInv, TypeOK, RolesAgree, PauseTimed, roleVars, pauseVars

\* Opening an upgrade proposal keeps the invariant.
LEMMA ProposeStep ==
    ASSUME IInv, NEW caller \in Address, NEW hash \in Hash, NEW emergency \in BOOLEAN,
           NEW is_rollback \in BOOLEAN,
           is_rollback => hash = rollback_target /\ Len(upgrade_history) >= 2,
           CreateUpgradeProposal(caller, hash, emergency, is_rollback)
    PROVE  IInv'
<1> USE BridgeAdminAssumption
<1> DEFINE members == Cardinality(Governors)
           required == UpgradeApprovalThreshold(members, emergency)
<1>1. members \in Nat \ {0}
  BY GovernorsCounted DEF IInv
<1>2. required \in Nat \ {0} /\ (emergency => required >= 2)
  <2>1. CASE emergency
    <3>1. members >= 2
      BY <2>1 DEF CreateUpgradeProposal
    <3>2. EmergencyThreshold(members) \in Nat /\ EmergencyThreshold(members) >= 2
      BY <1>1, <3>1, EmergencyAtLeastTwo
    <3>3. QED
      BY <2>1, <3>2 DEF UpgradeApprovalThreshold
  <2>2. CASE ~emergency
    BY <1>1, <2>2, HalfPositive DEF UpgradeApprovalThreshold
  <2>3. QED
    BY <2>1, <2>2
<1>3. /\ pending_upgrade' =
            [proposal_id |-> upgrade_counter + 1, new_wasm_hash |-> hash, proposed_at |-> now,
             execute_after |-> now + IF emergency THEN 0 ELSE UpgradeTimelock,
             required_approvals |-> required, approvals |-> <<caller>>,
             emergency |-> emergency, is_rollback |-> is_rollback]
      /\ upgrade_counter < MaxProposals /\ upgrade_counter' = upgrade_counter + 1
      /\ UNCHANGED <<now, admin, roleVars, pauseVars, pending_transfer, codeVars>>
  BY DEF CreateUpgradeProposal
<1> HIDE DEF members, required
<1>4. now \in Nat /\ upgrade_counter \in 0 .. MaxProposals
  BY DEF IInv, TypeOK
<1>5. pending_upgrade' \in UpgradeProposal
  <2>1. now + (IF emergency THEN 0 ELSE UpgradeTimelock) \in Nat /\ upgrade_counter + 1 \in Nat
    BY <1>4
  <2>2. <<caller>> \in Seq(Address)
    OBVIOUS
  <2>3. QED
    BY <1>2, <1>3, <1>4, <2>1, <2>2 DEF UpgradeProposal
<1>6. TypeOK' /\ RolesAgree' /\ PauseTimed'
  <2>1. upgrade_counter' \in 0 .. MaxProposals
    BY <1>3, <1>4
  <2>2. UNCHANGED codeVars /\ TypeOK
    BY <1>3 DEF IInv
  <2>3. QED
    BY <1>3, <1>5, <2>1, <2>2, UpgradeFrame DEF codeVars, TypeOK
<1>7. UpgradeTrail' /\ TargetTracked'
  BY <1>3 DEF IInv, UpgradeTrail, TargetTracked, codeVars
<1>8. ProposalSound'
  <2>1. \A j, k \in DOMAIN <<caller>> : j = k
    OBVIOUS
  <2>2. pending_upgrade'.execute_after = now + IF emergency THEN 0 ELSE UpgradeTimelock
    BY <1>3
  <2>3. QED
    BY <1>2, <1>3, <2>1, <2>2 DEF ProposalSound, HasUpgrade, codeVars
<1>9. QED
  BY <1>6, <1>7, <1>8 DEF IInv

\* An approval of a proposal keeps the invariant.
LEMMA ApproveStep ==
    ASSUME IInv, NEW caller \in Address, NEW id, ApproveUpgrade(caller, id)
    PROVE  IInv'
<1> USE BridgeAdminAssumption
<1> DEFINE old == pending_upgrade.approvals
           new == Append(old, caller)
<1>1. /\ pending_upgrade \in UpgradeProposal /\ old \in Seq(Address)
      /\ pending_upgrade' = [pending_upgrade EXCEPT !.approvals = new]
      /\ UNCHANGED <<now, admin, roleVars, pauseVars, pending_transfer, upgrade_counter,
                     codeVars>>
  BY DEF ApproveUpgrade, IInv, TypeOK, UpgradeProposal
<1>2. \A k \in DOMAIN old : old[k] # caller
  BY DEF ApproveUpgrade, Range
<1>3. \A j, k \in DOMAIN old : old[j] = old[k] => j = k
  BY DEF IInv, ProposalSound
<1>4. \A j, k \in DOMAIN new : new[j] = new[k] => j = k
  <2>1. DOMAIN new = 1 .. Len(old) + 1 /\ DOMAIN old = 1 .. Len(old)
    BY <1>1
  <2>2. /\ \A k \in 1 .. Len(old) : new[k] = old[k]
        /\ new[Len(old) + 1] = caller
        /\ Len(old) \in Nat
    BY <1>1
  <2>3. \A k \in DOMAIN new : k \in DOMAIN old \/ k = Len(old) + 1
    BY <2>1, <2>2
  <2> HIDE DEF new, old
  <2>4. QED
    BY <1>2, <1>3, <2>1, <2>2, <2>3
<1>5. pending_upgrade' \in UpgradeProposal
  <2>1. new \in Seq(Address)
    BY <1>1
  <2> HIDE DEF new, old
  <2>2. QED
    BY <1>1, <2>1 DEF UpgradeProposal
<1>6. /\ pending_upgrade'.approvals = new
      /\ pending_upgrade'.new_wasm_hash = pending_upgrade.new_wasm_hash
      /\ pending_upgrade'.is_rollback = pending_upgrade.is_rollback
      /\ pending_upgrade'.emergency = pending_upgrade.emergency
      /\ pending_upgrade'.required_approvals = pending_upgrade.required_approvals
      /\ pending_upgrade'.execute_after = pending_upgrade.execute_after
      /\ pending_upgrade'.proposed_at = pending_upgrade.proposed_at
  <2> HIDE DEF new, old
  <2>1. QED
    BY <1>1 DEF UpgradeProposal
<1> HIDE DEF new, old
<1>7. TypeOK' /\ RolesAgree' /\ PauseTimed'
  <2>1. TypeOK
    BY DEF IInv
  <2>2. QED
    BY <1>1, <1>5, <2>1, UpgradeFrame DEF codeVars, TypeOK
<1>8. UpgradeTrail' /\ TargetTracked'
  BY <1>1 DEF IInv, UpgradeTrail, TargetTracked, codeVars
<1>9. ProposalSound'
  BY <1>1, <1>4, <1>6 DEF IInv, ProposalSound, HasUpgrade, codeVars
<1>10. QED
  BY <1>7, <1>8, <1>9 DEF IInv

\* The execution of a proposal keeps the invariant.
LEMMA ExecuteStep ==
    ASSUME IInv, NEW caller \in Address, NEW id, ExecuteUpgrade(caller, id)
    PROVE  IInv'
<1> USE BridgeAdminAssumption
<1> DEFINE row == [from_version |-> contract_version, to_version |-> contract_version + 1,
                   from_wasm_hash |-> current_hash,
                   to_wasm_hash |-> pending_upgrade.new_wasm_hash,
                   is_rollback |-> pending_upgrade.is_rollback]
           n == Len(upgrade_history)
<1>1. /\ rollback_target' = IF current_hash = NoHash THEN rollback_target ELSE current_hash
      /\ current_hash' = pending_upgrade.new_wasm_hash
      /\ contract_version' = contract_version + 1
      /\ upgrade_history' = Append(upgrade_history, row)
      /\ pending_upgrade' = NoUpgrade
      /\ UNCHANGED <<now, admin, roleVars, pauseVars, pending_transfer, upgrade_counter>>
      /\ HasUpgrade
  BY DEF ExecuteUpgrade
<1>2. /\ contract_version = n + 1 /\ n \in Nat
      /\ upgrade_history \in Seq(UpgradeRecord)
      /\ current_hash \in Hash \cup {NoHash} /\ rollback_target \in Hash \cup {NoHash}
  BY DEF IInv, UpgradeTrail, TypeOK
<1>3. /\ pending_upgrade.new_wasm_hash \in Hash
      /\ pending_upgrade.is_rollback \in BOOLEAN
  BY <1>1 DEF IInv, ProposalSound, TypeOK, UpgradeProposal
<1>4. row \in UpgradeRecord
  BY <1>2, <1>3 DEF UpgradeRecord
<1>5. /\ row.from_version = n + 1 /\ row.to_version = n + 2
      /\ row.from_wasm_hash = current_hash
      /\ row.to_wasm_hash = pending_upgrade.new_wasm_hash
      /\ row.is_rollback = pending_upgrade.is_rollback
  BY <1>2
<1> HIDE DEF row
<1>6. /\ Len(upgrade_history') = n + 1
      /\ upgrade_history'[n + 1] = row
      /\ \A k \in 1 .. n : upgrade_history'[k] = upgrade_history[k]
      /\ upgrade_history' \in Seq(UpgradeRecord)
  BY <1>1, <1>2, <1>4
<1>7. /\ current_hash = IF n = 0 THEN NoHash ELSE upgrade_history[n].to_wasm_hash
      /\ n # 0 => current_hash # NoHash
  <2>1. current_hash = IF n = 0 THEN NoHash ELSE upgrade_history[n].to_wasm_hash
    BY DEF IInv, UpgradeTrail
  <2>2. ASSUME n # 0 PROVE upgrade_history[n] \in UpgradeRecord
    BY <1>2, <2>2
  <2>3. QED
    BY <2>1, <2>2 DEF UpgradeRecord
<1>8. n >= 2 => rollback_target = upgrade_history[n].from_wasm_hash
  BY <1>2 DEF IInv, TargetTracked
<1>9. row.is_rollback => n >= 2 /\ row.to_wasm_hash = upgrade_history[n].from_wasm_hash
  BY <1>1, <1>5, <1>8 DEF IInv, ProposalSound
<1>10. TypeOK' /\ RolesAgree' /\ PauseTimed'
  <2>1. NoUpgrade \in UpgradeProposal
    <3>1. <<>> \in Seq(Address)
      OBVIOUS
    <3>2. QED
      BY <3>1 DEF NoUpgrade, UpgradeProposal
  <2>2. TypeOK
    BY DEF IInv
  <2>3. contract_version' \in Nat \ {0} /\ upgrade_counter' \in 0 .. MaxProposals
    BY <1>1, <1>2, <2>2 DEF TypeOK
  <2>4. current_hash' \in Hash \cup {NoHash} /\ rollback_target' \in Hash \cup {NoHash}
    BY <1>1, <1>2, <1>3
  <2>5. QED
    BY <1>1, <1>6, <2>1, <2>3, <2>4, UpgradeFrame
<1>11. UpgradeTrail'
  <2>1. contract_version' = Len(upgrade_history') + 1
    BY <1>1, <1>2, <1>6
  <2>2. current_hash' = upgrade_history'[n + 1].to_wasm_hash
    BY <1>1, <1>5, <1>6
  <2>3. ASSUME NEW k \in 1 .. n + 1
        PROVE  LET rows == upgrade_history' IN
               /\ rows[k].from_version = k /\ rows[k].to_version = k + 1
               /\ rows[k].from_wasm_hash = IF k = 1 THEN NoHash ELSE rows[k - 1].to_wasm_hash
               /\ rows[k].is_rollback =>
                     k > 2 /\ rows[k].to_wasm_hash = rows[k - 1].from_wasm_hash
    <3>1. CASE k = n + 1
      <4>1. n = 0 => k = 1
        BY <3>1
      <4>2. n # 0 => k # 1 /\ k - 1 = n /\ k - 1 \in 1 .. n
        BY <1>2, <3>1
      <4>3. n >= 2 => k > 2
        BY <1>2, <3>1
      <4>4. row.to_version = k + 1
        BY <1>2, <1>5, <3>1
      <4>5. QED
        BY <1>5, <1>6, <1>7, <1>9, <3>1, <4>1, <4>2, <4>3, <4>4, <1>2
    <3>2. CASE k # n + 1
      <4>1. k \in 1 .. n /\ (k # 1 => k - 1 \in 1 .. n)
        BY <1>2, <3>2
      <4>2. /\ upgrade_history[k].from_version = k /\ upgrade_history[k].to_version = k + 1
            /\ upgrade_history[k].from_wasm_hash =
                  IF k = 1 THEN NoHash ELSE upgrade_history[k - 1].to_wasm_hash
            /\ upgrade_history[k].is_rollback =>
                  k > 2 /\ upgrade_history[k].to_wasm_hash = upgrade_history[k - 1].from_wasm_hash
        BY <4>1 DEF IInv, UpgradeTrail
      <4>3. k > 2 => k # 1
        OBVIOUS
      <4>4. QED
        BY <1>6, <4>1, <4>2, <4>3
    <3>3. QED
      BY <3>1, <3>2
  <2>4. Len(upgrade_history') # 0
    BY <1>2, <1>6
  <2>5. QED
    BY <1>6, <2>1, <2>2, <2>3, <2>4 DEF UpgradeTrail
<1>12. TargetTracked'
  <2>1. CASE n = 0
    <3>1. rollback_target = NoHash /\ current_hash = NoHash /\ Len(upgrade_history') < 2
      BY <1>6, <1>7, <2>1 DEF IInv, TargetTracked
    <3>2. QED
      BY <1>1, <3>1 DEF TargetTracked
  <2>2. CASE n # 0
    <3>1. ~(Len(upgrade_history') < 2) /\ rollback_target' = current_hash
      BY <1>1, <1>2, <1>6, <1>7, <2>2
    <3>2. QED
      BY <1>5, <1>6, <3>1 DEF TargetTracked
  <2>3. QED
    BY <2>1, <2>2
<1>13. ProposalSound'
  BY <1>1 DEF ProposalSound, HasUpgrade, NoUpgrade
<1>14. QED
  BY <1>10, <1>11, <1>12, <1>13 DEF IInv

\* A cancellation keeps the invariant.
LEMMA CancelStep ==
    ASSUME IInv, NEW caller \in Address, NEW id, CancelUpgrade(caller, id)
    PROVE  IInv'
<1>1. /\ pending_upgrade' = NoUpgrade
      /\ UNCHANGED <<now, admin, roleVars, pauseVars, pending_transfer, upgrade_counter,
                     codeVars>>
  BY DEF CancelUpgrade
<1>2. NoUpgrade \in UpgradeProposal
  <2>1. <<>> \in Seq(Address)
    OBVIOUS
  <2>2. QED
    BY <2>1 DEF NoUpgrade, UpgradeProposal
<1>3. TypeOK' /\ RolesAgree' /\ PauseTimed'
  <2>1. TypeOK
    BY DEF IInv
  <2>2. QED
    BY <1>1, <1>2, <2>1, UpgradeFrame DEF codeVars, TypeOK
<1>4. UpgradeTrail' /\ TargetTracked'
  BY <1>1 DEF IInv, UpgradeTrail, TargetTracked, codeVars
<1>5. ProposalSound'
  BY <1>1 DEF ProposalSound, HasUpgrade, NoUpgrade
<1>6. QED
  BY <1>3, <1>4, <1>5 DEF IInv

\* Every step of the upgrade procedure keeps the invariant.
LEMMA UpgradeStep ==
    ASSUME IInv, NEW caller \in Address, Upgrade(caller)
    PROVE  IInv'
<1>1. ASSUME NEW emergency \in BOOLEAN, NEW hash \in Hash,
             ProposeUpgrade(caller, hash, emergency)
      PROVE  IInv'
  BY <1>1, ProposeStep DEF ProposeUpgrade
<1>2. ASSUME NEW emergency \in BOOLEAN, ProposeRollback(caller, emergency)
      PROVE  IInv'
  <2>1. rollback_target \in Hash /\ Len(upgrade_history) >= 2
    BY <1>2 DEF ProposeRollback, IInv, TypeOK, TargetTracked
  <2>2. CreateUpgradeProposal(caller, rollback_target, emergency, TRUE)
    BY <1>2 DEF ProposeRollback
  <2>3. QED
    BY <2>1, <2>2, ProposeStep
<1>3. QED
  BY <1>1, <1>2, ApproveStep, ExecuteStep, CancelStep DEF Upgrade

\* The passing of time and stuttering keep the invariant.
LEMMA QuietStep ==
    ASSUME IInv, Tick \/ UNCHANGED adminVars
    PROVE  IInv'
<1>1. UNCHANGED <<admin, roleVars, pauseVars, pending_transfer, upgradeVars>>
  BY DEF Tick, adminVars, roleVars, pauseVars, upgradeVars, codeVars
<1>2. now' \in 0 .. MaxNow
  BY BridgeAdminAssumption DEF Tick, adminVars, IInv, TypeOK
<1>3. TypeOK'
  BY <1>1, <1>2 DEF IInv, TypeOK, roleVars, pauseVars, upgradeVars, codeVars
<1>4. RolesAgree' /\ PauseTimed'
  BY <1>1 DEF IInv, RolesAgree, PauseTimed, roleVars, pauseVars
<1>5. QED
  BY <1>1, <1>3, <1>4, UpgradesFramed DEF IInv

\* Every step of the contract keeps the invariant.
LEMMA NextIInv == IInv /\ [Next]_adminVars => IInv'
BY RoleStep, PauseStep, HandoverStep, UpgradeStep, QuietStep DEF Next, Administer

\* The invariant holds in every reachable state.
LEMMA SpecIInv == Spec => []IInv
BY InitIInv, NextIInv, PTL DEF Spec
-----------------------------------------------------------------------------
\* The invariant implies what the runs check.
LEMMA IInvImplies == IInv => TypeOK /\ RolesAgree /\ UpgradeTrail
BY DEF IInv

\* Every variable keeps its type.
THEOREM TypeCorrect == Spec => []TypeOK
BY IInvImplies, SpecIInv, PTL

\* The role a permission check reads and the list the governors are counted in never
\* disagree.
THEOREM RolesConsistent == Spec => []RolesAgree
BY IInvImplies, SpecIInv, PTL

\* The upgrade history is a chain, and every rollback in it restored what it should.
THEOREM TrailUnbroken == Spec => []UpgradeTrail
BY IInvImplies, SpecIInv, PTL
-----------------------------------------------------------------------------
\* Who may change what: a change of the code is an execution, and while the contract is
\* paused or a handover pending there is no step that changes a role.
LEMMA CodeChange ==
    ASSUME NEW caller \in Address,
           AssignRoles(caller) \/ Pause(caller) \/ Handover(caller) \/ Upgrade(caller)
    PROVE  UNCHANGED codeVars \/ \E id \in 1 .. MaxProposals : ExecuteUpgrade(caller, id)
<1>1. CASE AssignRoles(caller)
  BY <1>1 DEF AssignRoles, GrantRole, RevokeRole, upgradeVars
<1>2. CASE Pause(caller)
  BY <1>2 DEF Pause, EmergencyPause, Unpause, SetPauseGuardian, upgradeVars
<1>3. CASE Handover(caller)
  BY <1>3 DEF Handover, ProposeAdminTransfer, AcceptAdminTransfer, CancelAdminTransfer,
              upgradeVars
<1>4. CASE Upgrade(caller)
  BY <1>4 DEF Upgrade, ProposeUpgrade, ProposeRollback, CreateUpgradeProposal,
              ApproveUpgrade, CancelUpgrade
<1>5. QED
  BY <1>1, <1>2, <1>3, <1>4

\* Roles change only while the contract is not paused and no handover is open.
LEMMA RoleChange ==
    ASSUME NEW caller \in Address,
           AssignRoles(caller) \/ Pause(caller) \/ Handover(caller) \/ Upgrade(caller)
    PROVE  UNCHANGED roleVars \/ (~global_paused /\ NoHandover)
<1>1. CASE AssignRoles(caller)
  BY <1>1 DEF AssignRoles, GrantRole, RevokeRole
<1>2. CASE Pause(caller)
  BY <1>2 DEF Pause, EmergencyPause, Unpause, SetPauseGuardian
<1>3. CASE Handover(caller)
  BY <1>3 DEF Handover, ProposeAdminTransfer, AcceptAdminTransfer, CancelAdminTransfer
<1>4. CASE Upgrade(caller)
  BY <1>4 DEF Upgrade, ProposeUpgrade, ProposeRollback, CreateUpgradeProposal,
              ApproveUpgrade, ExecuteUpgrade, CancelUpgrade
<1>5. QED
  BY <1>1, <1>2, <1>3, <1>4

\* The approvals of an executed proposal: those it asks for, all different.
LEMMA TwoApproved ==
    ASSUME IInv, NEW caller \in Address, NEW id, ExecuteUpgrade(caller, id)
    PROVE  \/ now >= pending_upgrade.proposed_at + UpgradeTimelock
           \/ Cardinality(Range(pending_upgrade.approvals)) >= 2
<1> DEFINE votes == pending_upgrade.approvals
<1>1. /\ HasUpgrade /\ now >= pending_upgrade.execute_after
      /\ Len(votes) >= pending_upgrade.required_approvals
  BY DEF ExecuteUpgrade
<1>2. pending_upgrade \in UpgradeProposal /\ votes \in Seq(Address)
  BY DEF IInv, TypeOK, UpgradeProposal
<1>3. CASE ~pending_upgrade.emergency
  BY <1>1, <1>3 DEF IInv, ProposalSound
<1>4. CASE pending_upgrade.emergency
  <2>1. pending_upgrade.required_approvals >= 2 /\ pending_upgrade.required_approvals \in Nat
    BY <1>1, <1>2, <1>4 DEF IInv, ProposalSound, UpgradeProposal
  <2>2. Len(votes) \in Nat /\ Len(votes) >= 2 /\ DOMAIN votes = 1 .. Len(votes)
    BY <1>1, <1>2, <2>1
  <2>3. 1 \in DOMAIN votes /\ 2 \in DOMAIN votes
    BY <2>2
  <2>4. votes[1] # votes[2] /\ votes[1] \in Range(votes) /\ votes[2] \in Range(votes)
    BY <2>3 DEF IInv, ProposalSound, Range
  <2>5. Range(votes) \in SUBSET Address
    BY <1>2 DEF Range
  <2>6. IsFiniteSet(Range(votes))
    BY <2>5, BridgeAdminAssumption, FS_Subset
  <2>7. QED
    BY <2>4, <2>6, TwoMembers
<1>5. QED
  BY <1>3, <1>4

\* One signature never replaces the contract's code at once.
THEOREM TwoPersonRule == Spec => TwoPersonEmergency
<1> DEFINE A == contract_version' # contract_version =>
                   \/ now >= pending_upgrade.proposed_at + UpgradeTimelock
                   \/ Cardinality(Range(pending_upgrade.approvals)) >= 2
<1>1. IInv /\ [Next]_adminVars => [A]_adminVars
  <2> SUFFICES ASSUME IInv, Next, contract_version' # contract_version
               PROVE  \/ now >= pending_upgrade.proposed_at + UpgradeTimelock
                      \/ Cardinality(Range(pending_upgrade.approvals)) >= 2
    OBVIOUS
  <2>1. ~Tick
    BY DEF Tick, upgradeVars, codeVars
  <2>2. PICK caller \in Address :
            AssignRoles(caller) \/ Pause(caller) \/ Handover(caller) \/ Upgrade(caller)
    BY <2>1 DEF Next, Administer
  <2>3. \E id \in 1 .. MaxProposals : ExecuteUpgrade(caller, id)
    BY <2>2, CodeChange DEF codeVars
  <2>4. QED
    BY <2>3, TwoApproved
<1>2. QED
  BY <1>1, SpecIInv, PTL DEF Spec, TwoPersonEmergency

\* A pending handover freezes roles and upgrades.
THEOREM HandoverFrozen == Spec => HandoverFreezes
<1> DEFINE A == now < pending_transfer.timeout_at =>
                   /\ UNCHANGED roleVars
                   /\ UNCHANGED codeVars
                   /\ pending_upgrade' \in {pending_upgrade, NoUpgrade}
<1>1. IInv /\ [Next]_adminVars => [A]_adminVars
  <2> SUFFICES ASSUME IInv, Next, now < pending_transfer.timeout_at
               PROVE  /\ UNCHANGED roleVars
                      /\ UNCHANGED codeVars
                      /\ pending_upgrade' \in {pending_upgrade, NoUpgrade}
    OBVIOUS
  <2>1. ~NoHandover
    BY DEF NoHandover, IInv, TypeOK, PendingAdminTransfer
  <2>2. CASE Tick
    BY <2>2 DEF Tick, upgradeVars
  <2>3. ASSUME NEW caller \in Address,
               AssignRoles(caller) \/ Pause(caller) \/ Handover(caller) \/ Upgrade(caller)
        PROVE  /\ UNCHANGED roleVars
               /\ UNCHANGED codeVars
               /\ pending_upgrade' \in {pending_upgrade, NoUpgrade}
    <3>1. UNCHANGED roleVars
      BY <2>1, <2>3, RoleChange
    <3>2. UNCHANGED codeVars
      BY <2>1, <2>3, CodeChange DEF ExecuteUpgrade
    <3>3. pending_upgrade' \in {pending_upgrade, NoUpgrade}
      <4>1. CASE AssignRoles(caller) \/ Pause(caller) \/ Handover(caller)
        BY <4>1 DEF AssignRoles, GrantRole, RevokeRole, Pause, EmergencyPause, Unpause,
                    SetPauseGuardian, Handover, ProposeAdminTransfer, AcceptAdminTransfer,
                    CancelAdminTransfer, upgradeVars
      <4>2. CASE Upgrade(caller)
        BY <2>1, <4>2 DEF Upgrade, ProposeUpgrade, ProposeRollback, ApproveUpgrade,
                          ExecuteUpgrade, CancelUpgrade
      <4>3. QED
        BY <2>3, <4>1, <4>2
    <3>4. QED
      BY <3>1, <3>2, <3>3, Zenon
  <2>4. QED
    BY <2>2, <2>3 DEF Next, Administer
<1>2. QED
  BY <1>1, SpecIInv, PTL DEF Spec, HandoverFreezes

\* The pause outlasts 24 hours from its last call, and no role changes during it.
THEOREM PauseHolds == Spec => PauseHeld
<1> DEFINE A == global_paused =>
                   /\ UNCHANGED roleVars
                   /\ ~global_paused' => now >= paused_at + UnpauseTimelock
<1>1. IInv /\ [Next]_adminVars => [A]_adminVars
  <2> SUFFICES ASSUME IInv, Next, global_paused
               PROVE  /\ UNCHANGED roleVars
                      /\ ~global_paused' => now >= paused_at + UnpauseTimelock
    OBVIOUS
  <2>1. unpause_available_at = paused_at + UnpauseTimelock
    BY DEF IInv, PauseTimed
  <2>2. CASE Tick
    BY <2>2 DEF Tick, pauseVars
  <2>3. ASSUME NEW caller \in Address,
               AssignRoles(caller) \/ Pause(caller) \/ Handover(caller) \/ Upgrade(caller)
        PROVE  /\ UNCHANGED roleVars
               /\ ~global_paused' => now >= paused_at + UnpauseTimelock
    <3>1. UNCHANGED roleVars
      BY <2>3, RoleChange
    <3>2. CASE Pause(caller)
      BY <2>1, <3>2 DEF Pause, EmergencyPause, Unpause, SetPauseGuardian
    <3>3. CASE AssignRoles(caller) \/ Handover(caller)
      BY <3>3 DEF AssignRoles, GrantRole, RevokeRole, Handover, ProposeAdminTransfer,
                  AcceptAdminTransfer, CancelAdminTransfer, pauseVars
    <3>4. CASE Upgrade(caller)
      BY <3>4 DEF Upgrade, ProposeUpgrade, ProposeRollback, CreateUpgradeProposal,
                  ApproveUpgrade, ExecuteUpgrade, CancelUpgrade, pauseVars
    <3>5. QED
      BY <2>3, <3>1, <3>2, <3>3, <3>4
  <2>4. QED
    BY <2>2, <2>3 DEF Next, Administer
<1>2. QED
  BY <1>1, SpecIInv, PTL DEF Spec, PauseHeld

-----------------------------------------------------------------------------
\* The upgrades implement the promise of ApprovedAction: its places are Slot, what it
\* knows of the one proposal is read off pending_upgrade.

\* A list without repetitions has as many entries as members.
LEMMA DistinctCounted ==
    ASSUME NEW seq \in Seq(Address),
           \A j, k \in DOMAIN seq : seq[j] = seq[k] => j = k
    PROVE  Cardinality(Range(seq)) = Len(seq)
<1>1. Len(seq) \in Nat /\ DOMAIN seq = 1 .. Len(seq)
  OBVIOUS
<1>2. seq \in [1 .. Len(seq) -> Range(seq)]
  BY <1>1 DEF Range
<1>3. seq \in Bijection(1 .. Len(seq), Range(seq))
  BY <1>1, <1>2 DEF Bijection, Injection, Surjection, IsInjective, Range
<1>4. IsFiniteSet(1 .. Len(seq)) /\ Cardinality(1 .. Len(seq)) = Len(seq)
  BY <1>1, FS_Interval, SMTT(30)
<1>5. ExistsBijection(1 .. Len(seq), Range(seq))
  BY <1>3 DEF ExistsBijection
<1> QED
  BY <1>4, <1>5, FS_Bijection

\* The place seen by the promise.
place == IF HasUpgrade THEN Slot ELSE {}
approvers == [id \in Slot |-> Range(pending_upgrade.approvals)]
required == [id \in Slot |-> pending_upgrade.required_approvals]
executable == [id \in Slot |-> pending_upgrade.execute_after]

\* A call that leaves the upgrades and the clock alone is a stutter of the promise.
LEMMA StutterApproved ==
    ASSUME UNCHANGED <<now, upgradeVars>>
    PROVE  UNCHANGED Approved!actionVars
BY DEF Approved!actionVars, upgradeVars, codeVars, HasUpgrade

\* A function on the one place is its value there.
LEMMA OnePlace ==
    ASSUME NEW f, NEW x
    PROVE  [[id \in Slot |-> f] EXCEPT !["upgrade"] = x] = [id \in Slot |-> x]
BY DEF Slot

\* The empty place.
LEMMA EmptyPlace ==
    ASSUME pending_upgrade = NoUpgrade
    PROVE  /\ ~HasUpgrade /\ Range(pending_upgrade.approvals) = {}
           /\ pending_upgrade.required_approvals = 0 /\ pending_upgrade.execute_after = 0
BY DEF NoUpgrade, HasUpgrade, Range

\* The initial state maps to an initial state of the approved action.
LEMMA InitApproved == Init => Approved!Init
<1> SUFFICES ASSUME Init PROVE Approved!Init
  OBVIOUS
<1>1. pending_upgrade = NoUpgrade /\ now = 0 /\ contract_version - 1 = 0
  BY DEF Init
<1> QED
  BY <1>1, EmptyPlace DEF Approved!Init

\* A new proposal takes the place with its proposer's approval.
LEMMA CreateApproved ==
    ASSUME IInv, NEW caller \in Address, NEW hash, NEW emergency \in BOOLEAN,
           NEW is_rollback \in BOOLEAN,
           CreateUpgradeProposal(caller, hash, emergency, is_rollback)
    PROVE  Approved!Next
<1> USE BridgeAdminAssumption
<1> DEFINE members == Cardinality(Governors)
           asked == UpgradeApprovalThreshold(members, emergency)
           after == now + IF emergency THEN 0 ELSE UpgradeTimelock
<1>1. members \in Nat \ {0}
  BY GovernorsCounted DEF IInv
<1>2. asked \in Nat \ {0}
  <2>1. CASE emergency
    <3>1. members >= 2
      BY <2>1 DEF CreateUpgradeProposal
    <3> QED
      BY <1>1, <2>1, <3>1, EmergencyAtLeastTwo DEF UpgradeApprovalThreshold
  <2>2. CASE ~emergency
    BY <1>1, <2>2, HalfPositive DEF UpgradeApprovalThreshold
  <2> QED
    BY <2>1, <2>2
<1>3. after \in Nat /\ after >= now
  BY DEF IInv, TypeOK
<1>4. /\ pending_upgrade' =
            [proposal_id |-> upgrade_counter + 1, new_wasm_hash |-> hash, proposed_at |-> now,
             execute_after |-> after, required_approvals |-> asked, approvals |-> <<caller>>,
             emergency |-> emergency, is_rollback |-> is_rollback]
      /\ UNCHANGED <<now, codeVars>>
  BY DEF CreateUpgradeProposal
<1> HIDE DEF members, asked, after
<1>5. /\ HasUpgrade' /\ Range(pending_upgrade.approvals)' = {caller}
      /\ pending_upgrade'.required_approvals = asked
      /\ pending_upgrade'.execute_after = after
  BY <1>2, <1>4 DEF HasUpgrade, Range
<1>6. /\ place' = place \cup {"upgrade"}
      /\ approvers' = [approvers EXCEPT !["upgrade"] = {caller}]
      /\ required' = [required EXCEPT !["upgrade"] = required'["upgrade"]]
      /\ executable' = [executable EXCEPT !["upgrade"] = executable'["upgrade"]]
  BY <1>5, OnePlace DEF place, approvers, required, executable, Slot
<1>7. required'["upgrade"] > 0 /\ executable'["upgrade"] >= now
  BY <1>2, <1>3, <1>5 DEF required, executable, Slot
<1>8. \E first \in {{}} \cup {{v} : v \in Address} :
        approvers' = [approvers EXCEPT !["upgrade"] = first]
  <2> WITNESS {caller} \in {{}} \cup {{v} : v \in Address}
  <2> QED
    BY <1>6
<1>9. UNCHANGED now /\ contract_version' - 1 = contract_version - 1
  BY <1>4 DEF codeVars
<1> QED
  BY ONLY <1>6, <1>7, <1>8, <1>9, Zenon
     DEF Approved!Next, Approved!Propose, Slot, place, approvers, required, executable

\* An approval is a vote of someone who has not voted.
LEMMA ApproveApproved ==
    ASSUME IInv, NEW caller \in Address, NEW id, ApproveUpgrade(caller, id)
    PROVE  Approved!Next
<1> DEFINE old == pending_upgrade.approvals
<1>1. /\ HasUpgrade /\ caller \notin Range(old)
      /\ pending_upgrade' = [pending_upgrade EXCEPT !.approvals = Append(@, caller)]
      /\ UNCHANGED <<now, codeVars>>
  BY DEF ApproveUpgrade
<1>2. old \in Seq(Address) /\ pending_upgrade \in UpgradeProposal
  BY DEF IInv, TypeOK, UpgradeProposal
<1>3. /\ pending_upgrade'.approvals = Append(old, caller)
      /\ pending_upgrade'.required_approvals = pending_upgrade.required_approvals
      /\ pending_upgrade'.execute_after = pending_upgrade.execute_after
  BY <1>1, <1>2 DEF UpgradeProposal
<1> HIDE DEF old
<1>4. Range(Append(old, caller)) = Range(old) \cup {caller}
  <2>1. /\ Len(old) \in Nat /\ DOMAIN old = 1 .. Len(old)
        /\ DOMAIN Append(old, caller) = 1 .. Len(old) + 1
        /\ \A k \in 1 .. Len(old) : Append(old, caller)[k] = old[k]
        /\ Append(old, caller)[Len(old) + 1] = caller
    BY <1>2
  <2> QED
    BY <2>1 DEF Range
<1>5. /\ place' = place /\ required' = required /\ executable' = executable
      /\ approvers' = [approvers EXCEPT !["upgrade"] = @ \cup {caller}]
      /\ "upgrade" \in place /\ caller \notin approvers["upgrade"]
  BY <1>1, <1>3, <1>4, OnePlace
  DEF place, approvers, required, executable, Slot, HasUpgrade, old
<1>6. Approved!Vote("upgrade")
  BY <1>1, <1>5 DEF Approved!Vote, place, approvers, required, executable, codeVars
<1> QED
  BY <1>6 DEF Approved!Next, Slot

\* What becomes of the place when the proposal leaves it.
LEMMA LeavesPlace ==
    ASSUME HasUpgrade, pending_upgrade' = NoUpgrade, UNCHANGED now
    PROVE  Approved!Close("upgrade")
<1>1. /\ ~HasUpgrade' /\ Range(pending_upgrade.approvals)' = {}
      /\ pending_upgrade'.required_approvals = 0 /\ pending_upgrade'.execute_after = 0
  BY DEF NoUpgrade, HasUpgrade, Range
<1>2. /\ place' = place \ {"upgrade"} /\ "upgrade" \in place
      /\ approvers' = [approvers EXCEPT !["upgrade"] = {}]
      /\ required' = [required EXCEPT !["upgrade"] = 0]
      /\ executable' = [executable EXCEPT !["upgrade"] = 0]
  BY <1>1, OnePlace DEF place, approvers, required, executable, Slot
<1> QED
  BY <1>2 DEF Approved!Close, place, approvers, required, executable

\* An execution runs the action once, with enough different approvals and in time.
LEMMA ExecuteApproved ==
    ASSUME IInv, NEW caller \in Address, NEW id, ExecuteUpgrade(caller, id)
    PROVE  Approved!Next
<1> DEFINE votes == pending_upgrade.approvals
<1>1. /\ HasUpgrade /\ pending_upgrade' = NoUpgrade /\ UNCHANGED now
      /\ now >= pending_upgrade.execute_after
      /\ Len(votes) >= pending_upgrade.required_approvals
      /\ contract_version' = contract_version + 1
  BY DEF ExecuteUpgrade
<1>2. Cardinality(Range(votes)) = Len(votes)
  <2>1. votes \in Seq(Address)
    BY DEF IInv, TypeOK, UpgradeProposal
  <2>2. \A j, k \in DOMAIN votes : votes[j] = votes[k] => j = k
    BY DEF IInv, ProposalSound
  <2> HIDE DEF votes
  <2> QED
    BY <2>1, <2>2, DistinctCounted
<1>3. Approved!Close("upgrade")
  BY <1>1, LeavesPlace
<1>4. contract_version' - 1 = (contract_version - 1) + 1
  BY <1>1 DEF IInv, TypeOK
<1>5. Approved!Cardinality(Range(votes)) = Cardinality(Range(votes))
  BY DEF Approved!Cardinality, Cardinality
<1>6. Approved!Run("upgrade")
  BY <1>1, <1>2, <1>3, <1>4, <1>5 DEF Approved!Run, Slot
<1> QED
  BY <1>6 DEF Approved!Next, Slot

\* A cancelled proposal runs nothing.
LEMMA CancelApproved ==
    ASSUME NEW caller \in Address, NEW id, CancelUpgrade(caller, id)
    PROVE  Approved!Next
<1>1. /\ HasUpgrade /\ pending_upgrade' = NoUpgrade /\ UNCHANGED <<now, codeVars>>
  BY DEF CancelUpgrade
<1>2. Approved!Drop("upgrade")
  BY <1>1, LeavesPlace DEF Approved!Drop, codeVars
<1> QED
  BY <1>2 DEF Approved!Next, Slot

\* Every call maps to a step of the promise or to none.
LEMMA NextApproved == IInv /\ [Next]_adminVars => [Approved!Next]_(Approved!actionVars)
<1> SUFFICES ASSUME IInv, [Next]_adminVars
             PROVE  Approved!Next \/ UNCHANGED Approved!actionVars
  OBVIOUS
<1>1. CASE UNCHANGED adminVars
  BY <1>1, StutterApproved DEF adminVars, upgradeVars, codeVars
<1>2. CASE Tick
  <2>1. now' > now
    BY <1>2 DEF Tick, IInv, TypeOK
  <2>2. Approved!Wait
    BY <1>2, <2>1 DEF Approved!Wait, Tick, upgradeVars, codeVars, HasUpgrade
  <2> QED
    BY <2>2 DEF Approved!Next
<1>3. ASSUME NEW caller \in Address,
             AssignRoles(caller) \/ Pause(caller) \/ Handover(caller)
      PROVE  UNCHANGED Approved!actionVars
  <2>1. UNCHANGED <<now, upgradeVars>>
    BY <1>3 DEF AssignRoles, GrantRole, RevokeRole, Pause, EmergencyPause, Unpause,
                SetPauseGuardian, Handover, ProposeAdminTransfer, AcceptAdminTransfer,
                CancelAdminTransfer
  <2> QED
    BY <2>1, StutterApproved
<1>4. ASSUME NEW caller \in Address, Upgrade(caller)
      PROVE  Approved!Next
  <2>1. ASSUME NEW emergency \in BOOLEAN, NEW hash \in Hash,
               ProposeUpgrade(caller, hash, emergency)
        PROVE  Approved!Next
    BY <2>1, CreateApproved DEF ProposeUpgrade
  <2>2. ASSUME NEW emergency \in BOOLEAN, ProposeRollback(caller, emergency)
        PROVE  Approved!Next
    BY <2>2, CreateApproved DEF ProposeRollback
  <2> QED
    BY <1>4, <2>1, <2>2, ApproveApproved, ExecuteApproved, CancelApproved DEF Upgrade
<1> QED
  BY <1>1, <1>2, <1>3, <1>4 DEF Next, Administer

\* The upgrades of the contract implement the approved action: each runs once, by as many
\* different governors as were asked for when it was proposed, and not before its time.
THEOREM UpgradesAreApproved == Spec => UpgradesByApproval
<1>1. Spec => Approved!Init /\ [][Approved!Next]_(Approved!actionVars)
  BY InitApproved, NextApproved, SpecIInv, PTL DEF Spec
<1> QED
  BY <1>1 DEF UpgradesByApproval, Approved!Spec

-----------------------------------------------------------------------------
(***************************************************************************)
(* Quotients and remainders.                                               *)
(***************************************************************************)

\* A number between two multiples of m that follow each other is no multiple of it.
LEMMA NoMultiple ==
    ASSUME NEW m \in Nat \ {0}, NEW k \in Int, -m < m * k, m * k < m
    PROVE  k = 0
<1>1. CASE k >= 1
  <2>1. m * k >= m * 1
    BY <1>1
  <2> QED
    BY <2>1
<1>2. CASE k <= -1
  <2>1. m * k <= m * (-1)
    BY <1>2
  <2> QED
    BY <2>1
<1> QED
  BY <1>1, <1>2

\* Two numbers that a multiple of m lies between have the same remainder.
LEMMA SameRemainder ==
    ASSUME NEW m \in Nat \ {0}, NEW a \in Nat, NEW b \in Nat, NEW k \in Int, a = b + m * k
    PROVE  a % m = b % m
<1> DEFINE qa == a \div m
           qb == b \div m
           ra == a % m
           rb == b % m
<1>1. /\ a = m * qa + ra /\ b = m * qb + rb /\ qa \in Int /\ qb \in Int
      /\ ra \in 0 .. m - 1 /\ rb \in 0 .. m - 1
  OBVIOUS
<1> HIDE DEF qa, qb, ra, rb
<1> DEFINE z == qb + k - qa
<1>2. ra - rb = m * z /\ z \in Int
  <2>1. m * z = m * qb + m * k - m * qa
    BY <1>1
  <2>2. m * qb \in Int /\ m * k \in Int /\ m * qa \in Int
    BY <1>1
  <2> QED
    BY <1>1, <2>1, <2>2
<1> HIDE DEF z
<1>3. z = 0
  <2>1. -m < m * z /\ m * z < m
    BY <1>1, <1>2
  <2> QED
    BY <1>2, <2>1, NoMultiple
<1>4. m * z = 0
  BY <1>3
<1>5. ra = rb
  BY <1>1, <1>2, <1>4
<1> QED
  BY <1>5 DEF ra, rb

\* Two numbers less than m apart with the same remainder are equal.
LEMMA NearRemainders ==
    ASSUME NEW m \in Nat \ {0}, NEW a \in Nat, NEW b \in Nat, a % m = b % m,
           a - b < m, b - a < m
    PROVE  a = b
<1> DEFINE qa == a \div m
           qb == b \div m
           z == qa - qb
<1>1. a = m * qa + (a % m) /\ b = m * qb + (b % m) /\ qa \in Int /\ qb \in Int /\ a % m \in Int
  OBVIOUS
<1> HIDE DEF qa, qb
<1>2. m * z = m * qa - m * qb /\ z \in Int /\ m * qa \in Int /\ m * qb \in Int
  BY <1>1
<1> HIDE DEF z
<1>3. a - b = m * z
  BY <1>1, <1>2
<1>4. z = 0
  BY <1>2, <1>3, NoMultiple
<1>5. m * z = 0
  BY <1>4
<1> QED
  BY <1>3, <1>5

\* A remainder is smaller than what divides.
LEMMA RemainderRange ==
    ASSUME NEW m \in Nat \ {0}, NEW a \in Nat
    PROVE  a % m \in 0 .. m - 1
OBVIOUS

\* A number that is smaller than m is its own remainder.
LEMMA SmallRemainder ==
    ASSUME NEW m \in Nat \ {0}, NEW a \in 0 .. m - 1
    PROVE  a % m = a
OBVIOUS

\* A quotient does not fall while what is divided grows.
LEMMA QuotientMonotonic ==
    ASSUME NEW m \in Nat \ {0}, NEW a \in Nat, NEW b \in Nat, a <= b
    PROVE  a \div m <= b \div m
<1> DEFINE qa == a \div m
           qb == b \div m
<1>1. /\ qa \in Nat /\ m * qa <= a /\ a < m * qa + m
      /\ qb \in Nat /\ m * qb <= b /\ b < m * qb + m
  BY DivisionBounds
<1> HIDE DEF qa, qb
<1>2. SUFFICES ASSUME qa >= qb + 1 PROVE FALSE
  BY <1>1 DEF qa, qb
<1>3. m * qa >= m * (qb + 1) /\ m * (qb + 1) = m * qb + m
  BY <1>1, <1>2
<1>4. m * qa \in Nat /\ m * qb \in Nat
  BY <1>1
<1> QED
  BY <1>1, <1>3, <1>4

\* A quotient of a number is at least, or at most, what fits as many times.
LEMMA QuotientAtLeast ==
    ASSUME NEW m \in Nat \ {0}, NEW a \in Nat, NEW q \in Nat, m * q <= a
    PROVE  q <= a \div m
<1> DEFINE qa == a \div m
<1>1. qa \in Nat /\ m * qa <= a /\ a < m * qa + m
  BY DivisionBounds
<1> HIDE DEF qa
<1>2. SUFFICES ASSUME q >= qa + 1 PROVE FALSE
  BY <1>1 DEF qa
<1>3. m * q >= m * (qa + 1) /\ m * (qa + 1) = m * qa + m
  BY <1>1, <1>2
<1>4. m * q \in Nat /\ m * qa \in Nat
  BY <1>1
<1> QED
  BY <1>1, <1>3, <1>4

\* The same from above.
LEMMA QuotientAtMost ==
    ASSUME NEW m \in Nat \ {0}, NEW a \in Nat, NEW q \in Nat, a <= m * q
    PROVE  a \div m <= q
<1> DEFINE qa == a \div m
<1>1. qa \in Nat /\ m * qa <= a /\ a < m * qa + m
  BY DivisionBounds
<1> HIDE DEF qa
<1>2. SUFFICES ASSUME qa >= q + 1 PROVE FALSE
  BY <1>1 DEF qa
<1>3. m * qa >= m * (q + 1) /\ m * (q + 1) = m * q + m
  BY <1>1, <1>2
<1>4. m * q \in Nat /\ m * qa \in Nat
  BY <1>1
<1> QED
  BY <1>1, <1>3, <1>4

\* A multiple is divided exactly.
LEMMA ExactQuotient ==
    ASSUME NEW m \in Nat \ {0}, NEW q \in Nat
    PROVE  (m * q) \div m = q
<1>1. m * q \in Nat
  OBVIOUS
<1>2. (m * q) \div m <= q /\ q <= (m * q) \div m /\ (m * q) \div m \in Nat
  BY <1>1, QuotientAtLeast, QuotientAtMost, DivisionBounds
<1> QED
  BY <1>2
-----------------------------------------------------------------------------
(***************************************************************************)
(* Rings.                                                                  *)
(***************************************************************************)

\* The instance counts and adds as this module does.
LEMMA LiquidityCounts ==
    /\ \A S : Liquidity!Cardinality(S) = Cardinality(S)
    /\ \A f, S : Liquidity!SumFunctionOnSet(f, S) = SumFunctionOnSet(f, S)
<1>1. \A S : Liquidity!Cardinality(S) = Cardinality(S)
  BY DEF Liquidity!Cardinality, Cardinality
<1>2. ASSUME NEW f, NEW S PROVE Liquidity!SumFunctionOnSet(f, S) = SumFunctionOnSet(f, S)
  BY SumUnfolded DEF Liquidity!SumFunctionOnSet, Liquidity!FoldFunctionOnSet,
     Liquidity!MapThenFoldSet, SumTable, SumStep, Chosen
<1> QED
  BY <1>1, <1>2

\* A ring of m slots holds the newest of the entries of a sequence: the entry of number i
\* is in slot i - 1 modulo m until the one of number i + m takes its place.
RingOf(r, s, m) ==
    /\ r = [head |-> Len(s) % m, count |-> Len(s), slots |-> [k \in 0 .. m - 1 |-> r.slots[k]]]
    /\ \A i \in 1 .. Len(s) : i + m > Len(s) => r.slots[(i - 1) % m] = s[i]

\* What a ring is made of.
LEMMA RingParts ==
    ASSUME NEW r, NEW s, NEW m \in Nat \ {0}, RingOf(r, s, m)
    PROVE  /\ r.head = Len(s) % m /\ r.count = Len(s)
           /\ DOMAIN r.slots = 0 .. m - 1 /\ r.slots = [k \in 0 .. m - 1 |-> r.slots[k]]
           /\ Liquidity!Capacity(r) = m
<1>1. /\ r.head = Len(s) % m /\ r.count = Len(s)
      /\ DOMAIN r.slots = 0 .. m - 1 /\ r.slots = [k \in 0 .. m - 1 |-> r.slots[k]]
  BY DEF RingOf
<1>2. Cardinality(0 .. m - 1) = m
  BY FS_Interval
<1> QED
  BY <1>1, <1>2, LiquidityCounts DEF Liquidity!Capacity

\* An empty ring holds nothing.
LEMMA RingEmpty ==
    ASSUME NEW m \in Nat \ {0}
    PROVE  RingOf(Liquidity!EmptyRing(m), <<>>, m)
<1>1. 0 % m = 0
  BY SmallRemainder
<1> QED
  BY <1>1 DEF RingOf, Liquidity!EmptyRing

\* The head after a push is the remainder of one more entry.
LEMMA NextHead ==
    ASSUME NEW m \in Nat \ {0}, NEW n \in Nat
    PROVE  ((n % m) + 1) % m = (n + 1) % m
<1> DEFINE q == n \div m
           h == n % m
<1>1. q \in Int /\ h \in Nat /\ n = m * q + h
  OBVIOUS
<1> HIDE DEF q, h
<1>2. n + 1 = (h + 1) + m * q /\ n + 1 \in Nat /\ h + 1 \in Nat
  BY <1>1
<1>3. (n + 1) % m = (h + 1) % m
  BY <1>1, <1>2, SameRemainder, ZenonT(40)
<1> QED
  BY <1>3 DEF h

\* A push puts the next entry in the place of the oldest.
LEMMA RingPushed ==
    ASSUME NEW S, NEW s \in Seq(S), NEW e \in S, NEW m \in Nat \ {0}, NEW r, RingOf(r, s, m)
    PROVE  RingOf(Liquidity!Pushed(r, e), Append(s, e), m)
<1> DEFINE t == Append(s, e)
           w == Liquidity!Pushed(r, e)
           n == Len(s)
<1>1. /\ r.head = n % m /\ r.count = n
      /\ DOMAIN r.slots = 0 .. m - 1 /\ Liquidity!Capacity(r) = m
  BY RingParts
<1>2. n \in Nat /\ Len(t) = n + 1 /\ t[n + 1] = e /\ \A i \in 1 .. n : t[i] = s[i]
  OBVIOUS
<1>3. n % m \in 0 .. m - 1
  BY <1>2
<1>4. w = [head |-> ((n % m) + 1) % m, count |-> n + 1, slots |-> [r.slots EXCEPT ![n % m] = e]]
  BY <1>1 DEF Liquidity!Pushed
<1>5. w = [head |-> Len(t) % m, count |-> Len(t), slots |-> [k \in 0 .. m - 1 |-> w.slots[k]]]
  <2>1. w.slots = [k \in 0 .. m - 1 |-> w.slots[k]]
    BY <1>1, <1>4, SMTT(30)
  <2>2. ((n % m) + 1) % m = Len(t) % m
    BY <1>2, NextHead
  <2> HIDE DEF w, t
  <2>3. w = [head |-> w.head, count |-> w.count, slots |-> w.slots]
    BY <1>4
  <2>4. w.head = Len(t) % m /\ w.count = Len(t)
    BY <1>2, <1>4, <2>2
  <2> QED
    BY <2>1, <2>3, <2>4
<1>6. ASSUME NEW i \in 1 .. Len(t), i + m > Len(t)
      PROVE  w.slots[(i - 1) % m] = t[i]
  <2>1. (i - 1) % m \in 0 .. m - 1 /\ i - 1 \in Nat
    BY <1>2
  <2>2. w.slots[(i - 1) % m] = IF (i - 1) % m = n % m THEN e ELSE r.slots[(i - 1) % m]
    <3>1. w.slots = [r.slots EXCEPT ![n % m] = e]
      BY <1>4
    <3> HIDE DEF w
    <3> QED
      BY <1>1, <2>1, <3>1
  <2> HIDE DEF w, t
  <2>3. CASE i = n + 1
    BY <1>2, <2>2, <2>3
  <2>4. CASE i # n + 1
    <3>1. i \in 1 .. n /\ i + m > n + 1
      BY <1>2, <1>6, <2>4
    <3>2. (i - 1) % m # n % m
      <4>1. SUFFICES ASSUME (i - 1) % m = n % m PROVE FALSE
        OBVIOUS
      <4>2. (i - 1) - n < m /\ n - (i - 1) < m
        BY <1>2, <3>1
      <4>3. i - 1 = n
        BY <1>2, <2>1, <4>1, <4>2, NearRemainders
      <4> QED
        BY <1>2, <3>1, <4>3
    <3>3. i + m > n
      BY <1>2, <3>1
    <3>4. r.slots[(i - 1) % m] = s[i]
      BY <3>1, <3>3 DEF RingOf
    <3> QED
      BY <1>2, <2>2, <3>1, <3>2, <3>4
  <2> QED
    BY <2>3, <2>4
<1> HIDE DEF w, t
<1>7. RingOf(w, t, m)
  BY <1>5, <1>6 DEF RingOf
<1> QED
  BY <1>7 DEF w, t

\* The slot written last is that of the last entry.
LEMMA RingLast ==
    ASSUME NEW S, NEW s \in Seq(S), s # <<>>, NEW m \in Nat \ {0}, NEW r, RingOf(r, s, m)
    PROVE  /\ Liquidity!LastSlot(r) = (Len(s) - 1) % m
           /\ Liquidity!Latest(r) = s[Len(s)]
<1> DEFINE n == Len(s)
           h == (n - 1) % m
<1>1. n \in Nat /\ n >= 1
  OBVIOUS
<1>2. r.head = n % m /\ r.count = n /\ Liquidity!Capacity(r) = m
  BY RingParts
<1>3. h \in 0 .. m - 1
  BY <1>1
<1>4. n % m = (h + 1) % m
  BY <1>1, NextHead, SMTT(30)
<1> HIDE DEF h, n
<1>5. Liquidity!LastSlot(r) = h
  <2>1. CASE h = m - 1
    <3>1. (h + 1) % m = 0
      <4>1. h + 1 = 0 + m * 1 /\ h + 1 \in Nat
        BY <1>3, <2>1
      <4>2. (h + 1) % m = 0 % m
        BY <4>1, SameRemainder
      <4> QED
        BY <4>2, SmallRemainder
    <3> QED
      BY <1>2, <1>4, <2>1, <3>1 DEF Liquidity!LastSlot
  <2>2. CASE h # m - 1
    <3>1. h + 1 \in 0 .. m - 1
      BY <1>3, <2>2
    <3>2. (h + 1) % m = h + 1
      BY <3>1, SmallRemainder
    <3>3. r.head = h + 1 /\ h + 1 # 0
      BY <1>2, <1>3, <1>4, <3>2
    <3> QED
      BY <1>3, <3>3 DEF Liquidity!LastSlot
  <2> QED
    BY <2>1, <2>2
<1>6. r.slots[h] = s[n]
  <2>1. n \in 1 .. Len(s) /\ n + m > Len(s)
    BY <1>1 DEF n
  <2> QED
    BY <2>1 DEF RingOf, h
<1>7. Liquidity!Latest(r) = s[n]
  BY <1>1, <1>2, <1>5, <1>6 DEF Liquidity!Latest
<1> QED
  BY <1>5, <1>7 DEF h, n

\* The last entry is replaced where it was written.
LEMMA RingReplaced ==
    ASSUME NEW S, NEW s \in Seq(S), s # <<>>, NEW e \in S, NEW m \in Nat \ {0}, NEW r,
           RingOf(r, s, m)
    PROVE  RingOf([r EXCEPT !.slots[Liquidity!LastSlot(r)] = e], [s EXCEPT ![Len(s)] = e], m)
<1> DEFINE n == Len(s)
           h == (n - 1) % m
           t == [s EXCEPT ![n] = e]
           w == [r EXCEPT !.slots[Liquidity!LastSlot(r)] = e]
<1>1. n \in Nat /\ n >= 1 /\ h \in 0 .. m - 1
  OBVIOUS
<1>2. /\ r = [head |-> n % m, count |-> n, slots |-> r.slots]
      /\ DOMAIN r.slots = 0 .. m - 1
  BY RingParts DEF RingOf
<1>3. Liquidity!LastSlot(r) = h
  BY RingLast
<1>4. Len(t) = n /\ t[n] = e /\ \A i \in 1 .. n : i # n => t[i] = s[i]
  OBVIOUS
<1>5. w = [r EXCEPT !.slots = [r.slots EXCEPT ![h] = e]]
  BY <1>3
<1> HIDE DEF w, t, h
<1>6. w = [head |-> n % m, count |-> n, slots |-> [r.slots EXCEPT ![h] = e]]
  BY <1>2, <1>5
<1>7. w = [head |-> Len(t) % m, count |-> Len(t), slots |-> [k \in 0 .. m - 1 |-> w.slots[k]]]
  <2>1. w.slots = [k \in 0 .. m - 1 |-> w.slots[k]]
    BY <1>2, <1>6
  <2>2. w = [head |-> w.head, count |-> w.count, slots |-> w.slots]
    BY <1>6
  <2>3. w.head = Len(t) % m /\ w.count = Len(t)
    BY <1>4, <1>6
  <2> QED
    BY <2>1, <2>2, <2>3
<1>8. ASSUME NEW i \in 1 .. Len(t), i + m > Len(t)
      PROVE  w.slots[(i - 1) % m] = t[i]
  <2>1. (i - 1) % m \in 0 .. m - 1 /\ i - 1 \in Nat /\ i \in 1 .. n /\ i + m > n
    BY <1>4, <1>8
  <2>2. w.slots[(i - 1) % m] = IF (i - 1) % m = h THEN e ELSE r.slots[(i - 1) % m]
    BY <1>2, <1>6, <2>1
  <2>3. CASE i = n
    BY <1>4, <2>2, <2>3 DEF h
  <2>4. CASE i # n
    <3>1. (i - 1) % m # h
      <4>1. SUFFICES ASSUME (i - 1) % m = (n - 1) % m PROVE FALSE
        BY DEF h
      <4>2. (i - 1) - (n - 1) < m /\ (n - 1) - (i - 1) < m /\ n - 1 \in Nat
        BY <1>1, <2>1
      <4>3. i - 1 = n - 1
        BY <2>1, <4>1, <4>2, NearRemainders
      <4> QED
        BY <1>1, <2>1, <2>4, <4>3
    <3>2. r.slots[(i - 1) % m] = s[i]
      BY <2>1 DEF RingOf
    <3> QED
      BY <1>4, <2>1, <2>2, <2>4, <3>1, <3>2
  <2> QED
    BY <2>3, <2>4
<1>9. RingOf(w, t, m)
  BY <1>7, <1>8 DEF RingOf
<1> QED
  BY <1>9 DEF w, t

\* The newest entries of a sequence, as a function.
LEMMA NewestEntries ==
    ASSUME NEW S, NEW s \in Seq(S), NEW m \in Nat \ {0}
    PROVE  Liquidity!Newest(s, m) = IF Len(s) > m THEN [i \in 1 .. m |-> s[Len(s) - m + i]] ELSE s
<1> DEFINE n == Len(s)
<1>1. n \in Nat
  OBVIOUS
<1>2. CASE n > m
  <2>1. n - m + 1 \in 1 .. n /\ n - (n - m + 1) + 1 = m
    BY <1>1, <1>2
  <2>2. SubSeq(s, n - m + 1, n) = [i \in 1 .. m |-> s[n - m + i]]
    BY <1>1, <1>2
  <2> QED
    BY <1>2, <2>2 DEF Liquidity!Newest
<1>3. CASE ~(n > m)
  <2>1. SubSeq(s, 1, n) = s
    BY <1>1
  <2> QED
    BY <1>3, <2>1 DEF Liquidity!Newest
<1> QED
  BY <1>2, <1>3

\* A walk of the ring meets the newest entries in their order.
LEMMA RingWalk ==
    ASSUME NEW S, NEW s \in Seq(S), NEW m \in Nat \ {0}, NEW r, RingOf(r, s, m)
    PROVE  Liquidity!Walk(r) = Liquidity!Newest(s, m)
<1> DEFINE n == Len(s)
<1>1. n \in Nat
  OBVIOUS
<1>2. r.head = n % m /\ r.count = n /\ Liquidity!Capacity(r) = m
  BY RingParts
<1>3. CASE n > m
  <2>1. Liquidity!Walk(r) = [i \in 1 .. m |-> r.slots[((n % m) + i - 1) % m]]
    BY <1>2, <1>3 DEF Liquidity!Walk
  <2>2. ASSUME NEW i \in 1 .. m PROVE r.slots[((n % m) + i - 1) % m] = s[n - m + i]
    <3> DEFINE j == n - m + i
               q == n \div m
               h == n % m
    <3>1. j \in 1 .. n /\ j + m > n /\ j - 1 \in Nat
      BY <1>1, <1>3
    <3>2. q \in Int /\ h \in Nat /\ n = m * q + h
      BY <1>1
    <3> HIDE DEF q, h
    <3> DEFINE a == h + i - 1
               k == 1 - q
    <3>3. a \in Nat /\ k \in Int /\ a = (j - 1) + m * k
      <4>1. m * k = m - m * q /\ m * q \in Int
        BY <3>2
      <4> QED
        BY <1>1, <3>2, <4>1
    <3> HIDE DEF a, k
    <3>4. a % m = (j - 1) % m
      BY <3>1, <3>3, SameRemainder
    <3>5. r.slots[(j - 1) % m] = s[j]
      <4> HIDE DEF j
      <4> QED
        BY <3>1 DEF RingOf
    <3> QED
      BY <3>4, <3>5 DEF a, h
  <2>3. Liquidity!Newest(s, m) = [i \in 1 .. m |-> s[n - m + i]]
    BY <1>3, NewestEntries
  <2> QED
    BY <2>1, <2>2, <2>3
<1>4. CASE ~(n > m)
  <2>1. Liquidity!Walk(r) = [i \in 1 .. n |-> r.slots[(0 + i - 1) % m]]
    BY <1>2, <1>4 DEF Liquidity!Walk
  <2>2. ASSUME NEW i \in 1 .. n PROVE r.slots[(0 + i - 1) % m] = s[i]
    <3>1. i + m > n /\ 0 + i - 1 = i - 1
      BY <1>1, <1>4
    <3> QED
      BY <3>1 DEF RingOf
  <2>3. s = [i \in 1 .. n |-> s[i]]
    OBVIOUS
  <2>4. Liquidity!Newest(s, m) = s
    BY <1>4, NewestEntries
  <2> QED
    BY <2>1, <2>2, <2>3, <2>4
<1> QED
  BY <1>3, <1>4

\* What a walk meets is an entry of the sequence; the last is the last.
LEMMA WalkMeets ==
    ASSUME NEW S, NEW s \in Seq(S), NEW m \in Nat \ {0}, NEW r, RingOf(r, s, m)
    PROVE  /\ Liquidity!Walk(r) \in Seq(S)
           /\ \A k \in DOMAIN Liquidity!Walk(r) :
                 \E j \in 1 .. Len(s) : Liquidity!Walk(r)[k] = s[j]
<1> DEFINE n == Len(s)
<1>1. n \in Nat /\ \A j \in 1 .. n : s[j] \in S
  OBVIOUS
<1>2. Liquidity!Walk(r) = IF n > m THEN [i \in 1 .. m |-> s[n - m + i]] ELSE s
  BY RingWalk, NewestEntries
<1>3. CASE n > m
  <2>1. \A i \in 1 .. m : n - m + i \in 1 .. n
    BY <1>1, <1>3
  <2>2. Liquidity!Walk(r) = [i \in 1 .. m |-> s[n - m + i]]
    BY <1>2, <1>3
  <2>3. [i \in 1 .. m |-> s[n - m + i]] \in Seq(S)
    BY <1>1, <2>1
  <2> HIDE DEF n
  <2> QED
    BY <2>1, <2>2, <2>3 DEF n
<1>4. CASE ~(n > m)
  BY <1>2, <1>4
<1> QED
  BY <1>3, <1>4
-----------------------------------------------------------------------------
(***************************************************************************)
(* Days.                                                                   *)
(***************************************************************************)

\* Snapshots, and daily buckets.
Snap == [timestamp : Nat, reserve_a : Nat, reserve_b : Nat, price : Nat, volume : Int, fees : Int]
Bucket == [timestamp : Nat, open : Nat, high : Nat, low : Nat, close : Nat, volume : Int, fees : Int,
           avg_reserve_a : Nat, avg_reserve_b : Nat, count : Nat \ {0}]

\* The places of the snapshots of a day.
DayPlaces(rows, d) == {j \in DOMAIN rows : Liquidity!DayOf(rows[j].timestamp) = d}

\* What a bucket says, without operators as parameters.
LEMMA DayTrueUnfolded ==
    ASSUME NEW rows, NEW b
    PROVE  Liquidity!DayTrue(rows, b) <=>
           LET places == DayPlaces(rows, b.timestamp) IN
           /\ places # {} /\ b.count = Cardinality(places)
           /\ b.volume = SumFunctionOnSet([i \in places |-> rows[i].volume], places)
           /\ b.fees = SumFunctionOnSet([i \in places |-> rows[i].fees], places)
           /\ b.open = rows[Liquidity!Min(places)].price
           /\ b.close = rows[Liquidity!Max(places)].price
           /\ \A j \in places : b.low <= rows[j].price /\ rows[j].price <= b.high
           /\ {b.low, b.high} \subseteq {rows[j].price : j \in places}
BY LiquidityCounts, ZenonT(30) DEF Liquidity!DayTrue, Liquidity!SumOf, DayPlaces

\* The first and the last of a set of places.
LEMMA FirstAndLast ==
    ASSUME NEW n \in Nat, NEW S \in SUBSET (1 .. n), S # {}
    PROVE  /\ Liquidity!Min(S) \in S /\ \A k \in S : Liquidity!Min(S) <= k
           /\ Liquidity!Max(S) \in S /\ \A k \in S : Liquidity!Max(S) >= k
<1>1. \E m \in S : \A k \in S : m <= k
  <2>1. S \in SUBSET Nat
    OBVIOUS
  <2> QED
    BY <2>1, LeastNumber
<1>2. \E m \in S : \A k \in S : m >= k
  BY LargestNumber
<1> QED
  BY <1>1, <1>2 DEF Liquidity!Min, Liquidity!Max

\* What is the first or the last is found.
LEMMA FirstIs ==
    ASSUME NEW n \in Nat, NEW S \in SUBSET (1 .. n), NEW m \in S, \A k \in S : m <= k
    PROVE  Liquidity!Min(S) = m
<1>1. Liquidity!Min(S) \in S /\ Liquidity!Min(S) <= m
  BY FirstAndLast
<1>2. m <= Liquidity!Min(S)
  BY <1>1
<1>3. \A k \in S : k \in Int
  OBVIOUS
<1>4. m \in Int /\ Liquidity!Min(S) \in Int
  BY <1>1, <1>3
<1> QED
  BY <1>1, <1>2, <1>4

\* The same from above.
LEMMA LastIs ==
    ASSUME NEW n \in Nat, NEW S \in SUBSET (1 .. n), NEW m \in S, \A k \in S : m >= k
    PROVE  Liquidity!Max(S) = m
<1>1. Liquidity!Max(S) \in S /\ Liquidity!Max(S) >= m
  BY FirstAndLast
<1>2. m >= Liquidity!Max(S)
  BY <1>1
<1>3. \A k \in S : k \in Int
  OBVIOUS
<1>4. m \in Int /\ Liquidity!Max(S) \in Int
  BY <1>1, <1>3
<1> QED
  BY <1>1, <1>2, <1>4

\* Places among the first n are finitely many.
LEMMA PlacesFinite ==
    ASSUME NEW n \in Nat, NEW S \in SUBSET (1 .. n)
    PROVE  IsFiniteSet(S) /\ Cardinality(S) \in Nat
<1>1. IsFiniteSet(1 .. n)
  BY FS_Interval
<1>2. IsFiniteSet(S)
  BY <1>1, FS_Subset
<1> QED
  BY <1>2, FS_CardinalityType

\* A day begins at a time.
LEMMA DayOfTime ==
    ASSUME Day \in Nat \ {0}, NEW a \in Nat
    PROVE  Liquidity!DayOf(a) \in Nat
<1>1. a \div Day \in Nat
  BY DivisionBounds
<1> QED
  BY <1>1 DEF Liquidity!DayOf

\* The day of a later time is not an earlier day.
LEMMA DaysFollow ==
    ASSUME Day \in Nat \ {0}, NEW a \in Nat, NEW b \in Nat, a <= b
    PROVE  Liquidity!DayOf(a) <= Liquidity!DayOf(b)
<1> DEFINE x == a \div Day
           y == b \div Day
<1>1. x <= y /\ x \in Nat /\ y \in Nat
  BY QuotientMonotonic, DivisionBounds
<1> HIDE DEF x, y
<1>2. x * Day <= y * Day
  BY <1>1
<1> QED
  BY <1>2 DEF Liquidity!DayOf, x, y

\* A snapshot of another day changes nothing of what a bucket says.
LEMMA DayKept ==
    ASSUME NEW rows \in Seq(Snap), NEW s \in Snap, NEW b,
           Liquidity!DayOf(s.timestamp) # b.timestamp, Liquidity!DayTrue(rows, b)
    PROVE  Liquidity!DayTrue(Append(rows, s), b)
<1> DEFINE more == Append(rows, s)
           n == Len(rows)
           places == DayPlaces(rows, b.timestamp)
<1>1. /\ n \in Nat /\ DOMAIN rows = 1 .. n /\ DOMAIN more = 1 .. n + 1 /\ more[n + 1] = s
      /\ \A i \in 1 .. n : more[i] = rows[i]
  OBVIOUS
<1> HIDE DEF more, n
<1>2. DayPlaces(more, b.timestamp) = places
  BY <1>1 DEF DayPlaces
<1>3. places \subseteq 1 .. n
  BY <1>1 DEF DayPlaces
<1>4. places # {}
  BY DayTrueUnfolded
<1>5. Liquidity!Min(places) \in 1 .. n /\ Liquidity!Max(places) \in 1 .. n
  BY <1>1, <1>3, <1>4, FirstAndLast
<1> HIDE DEF places
<1>6. \A i \in places : more[i] = rows[i]
  BY <1>1, <1>3
<1>7. /\ [i \in places |-> more[i].volume] = [i \in places |-> rows[i].volume]
      /\ [i \in places |-> more[i].fees] = [i \in places |-> rows[i].fees]
      /\ {more[j].price : j \in places} = {rows[j].price : j \in places}
  BY <1>6
<1>8. Liquidity!DayTrue(more, b)
  <2>1. /\ places # {} /\ b.count = Cardinality(places)
        /\ b.volume = SumFunctionOnSet([i \in places |-> rows[i].volume], places)
        /\ b.fees = SumFunctionOnSet([i \in places |-> rows[i].fees], places)
        /\ b.open = rows[Liquidity!Min(places)].price
        /\ b.close = rows[Liquidity!Max(places)].price
        /\ \A j \in places : b.low <= rows[j].price /\ rows[j].price <= b.high
        /\ {b.low, b.high} \subseteq {rows[j].price : j \in places}
    BY DayTrueUnfolded DEF places
  <2>2. \A j \in places : b.low <= more[j].price /\ more[j].price <= b.high
    BY <1>6, <2>1
  <2>3. /\ rows[Liquidity!Min(places)] = more[Liquidity!Min(places)]
        /\ rows[Liquidity!Max(places)] = more[Liquidity!Max(places)]
    BY <1>1, <1>5
  <2> QED
    BY <1>2, <1>7, <2>1, <2>2, <2>3, DayTrueUnfolded
<1> QED
  BY <1>8 DEF more

\* The bucket of a day that begins says what its snapshot says.
LEMMA DayBegun ==
    ASSUME NEW rows \in Seq(Snap), NEW s \in Snap,
           \A j \in 1 .. Len(rows) :
               Liquidity!DayOf(rows[j].timestamp) # Liquidity!DayOf(s.timestamp)
    PROVE  Liquidity!DayTrue(Append(rows, s), Liquidity!NewBucket(s))
<1> DEFINE more == Append(rows, s)
           n == Len(rows)
           b == Liquidity!NewBucket(s)
           P == {n + 1}
           vol == [i \in P |-> more[i].volume]
           fee == [i \in P |-> more[i].fees]
<1>1. /\ n \in Nat /\ DOMAIN rows = 1 .. n /\ DOMAIN more = 1 .. n + 1 /\ more[n + 1] = s
      /\ \A i \in 1 .. n : more[i] = rows[i]
  OBVIOUS
<1>2. /\ b.timestamp = Liquidity!DayOf(s.timestamp) /\ b.count = 1
      /\ b.open = s.price /\ b.close = s.price /\ b.low = s.price /\ b.high = s.price
      /\ b.volume = s.volume /\ b.fees = s.fees
  BY DEF Liquidity!NewBucket
<1> HIDE DEF b, more, n
<1>3. DayPlaces(more, b.timestamp) = P
  <2>1. \A j \in 1 .. n : Liquidity!DayOf(more[j].timestamp) # b.timestamp
    BY <1>1, <1>2 DEF n
  <2> QED
    BY <1>1, <1>2, <2>1 DEF DayPlaces
<1>4. IsFiniteSet({}) /\ IsFiniteSet(P) /\ Cardinality(P) = 1
  BY FS_EmptySet, FS_Singleton
<1>5. vol[n + 1] = s.volume /\ fee[n + 1] = s.fees /\ s.volume \in Int /\ s.fees \in Int /\ s.price \in Nat
  BY <1>1 DEF Snap
<1> HIDE DEF vol, fee
<1>6. SumFunctionOnSet(vol, P) = s.volume /\ SumFunctionOnSet(fee, P) = s.fees
  <2>1. P \ {n + 1} = {}
    OBVIOUS
  <2>2. /\ SumFunctionOnSet(vol, P) = vol[n + 1] + SumFunctionOnSet(vol, P \ {n + 1})
        /\ SumFunctionOnSet(fee, P) = fee[n + 1] + SumFunctionOnSet(fee, P \ {n + 1})
    <3>1. \A x \in P : vol[x] \in Int /\ fee[x] \in Int
      BY <1>5
    <3> QED
      BY <1>4, <3>1, SumRemove
  <2>3. SumFunctionOnSet(vol, P \ {n + 1}) = 0 /\ SumFunctionOnSet(fee, P \ {n + 1}) = 0
    BY ONLY <2>1, SumEmpty, Zenon
  <2> HIDE DEF P
  <2> QED
    BY <1>5, <2>2, <2>3
<1>7. Liquidity!Min(P) = n + 1 /\ Liquidity!Max(P) = n + 1
  <2>1. P \in SUBSET (1 .. n + 1) /\ n + 1 \in Nat /\ n + 1 \in P
    BY <1>1
  <2>2. \A k \in P : n + 1 <= k /\ n + 1 >= k
    BY <1>1
  <2> QED
    BY <2>1, <2>2, FirstIs, LastIs
<1>8. Liquidity!DayTrue(more, b)
  <2>1. \A j \in P : more[j].price = s.price
    BY <1>1
  <2>2. {b.low, b.high} \subseteq {more[j].price : j \in P}
    BY <1>2, <2>1
  <2>3. \A j \in P : b.low <= more[j].price /\ more[j].price <= b.high
    BY <1>2, <1>5, <2>1
  <2>4. /\ P # {} /\ b.count = Cardinality(P)
        /\ b.volume = SumFunctionOnSet(vol, P) /\ b.fees = SumFunctionOnSet(fee, P)
    BY <1>2, <1>4, <1>6
  <2>5. b.open = more[Liquidity!Min(P)].price /\ b.close = more[Liquidity!Max(P)].price
    BY <1>1, <1>2, <1>7
  <2> HIDE DEF P
  <2> QED
    BY <1>3, <2>2, <2>3, <2>4, <2>5, DayTrueUnfolded DEF vol, fee
<1> QED
  BY <1>8 DEF more, b

\* The bucket of a day that goes on says what its snapshots say with one more.
LEMMA DayExtended ==
    ASSUME NEW rows \in Seq(Snap), NEW s \in Snap, NEW b \in Bucket,
           Liquidity!DayOf(s.timestamp) = b.timestamp, Liquidity!DayTrue(rows, b)
    PROVE  Liquidity!DayTrue(Append(rows, s), Liquidity!Extended(b, s))
<1> DEFINE more == Append(rows, s)
           n == Len(rows)
           c == Liquidity!Extended(b, s)
           Q == DayPlaces(rows, b.timestamp)
           P == DayPlaces(more, c.timestamp)
           vol == [i \in Q |-> rows[i].volume]
           fee == [i \in Q |-> rows[i].fees]
           volc == [i \in P |-> more[i].volume]
           feec == [i \in P |-> more[i].fees]
<1>1. /\ n \in Nat /\ DOMAIN rows = 1 .. n /\ DOMAIN more = 1 .. n + 1 /\ more[n + 1] = s
      /\ \A i \in 1 .. n : more[i] = rows[i] /\ rows[i] \in Snap
  OBVIOUS
<1>2. /\ c.timestamp = b.timestamp /\ c.count = b.count + 1
      /\ c.open = b.open /\ c.close = s.price
      /\ c.low = (IF s.price < b.low THEN s.price ELSE b.low)
      /\ c.high = (IF s.price > b.high THEN s.price ELSE b.high)
      /\ c.volume = b.volume + s.volume /\ c.fees = b.fees + s.fees
  BY DEF Liquidity!Extended, Bucket
<1>3. /\ Q # {} /\ b.count = Cardinality(Q)
      /\ b.volume = SumFunctionOnSet(vol, Q) /\ b.fees = SumFunctionOnSet(fee, Q)
      /\ b.open = rows[Liquidity!Min(Q)].price /\ b.close = rows[Liquidity!Max(Q)].price
      /\ \A j \in Q : b.low <= rows[j].price /\ rows[j].price <= b.high
      /\ {b.low, b.high} \subseteq {rows[j].price : j \in Q}
  BY DayTrueUnfolded
<1>t. s.price \in Nat /\ b.low \in Nat /\ b.high \in Nat /\ s.volume \in Int /\ s.fees \in Int
  BY DEF Snap, Bucket
<1> HIDE DEF c, more, n
<1>4. P = Q \cup {n + 1} /\ Q \subseteq 1 .. n /\ n + 1 \notin Q
  BY <1>1, <1>2 DEF DayPlaces
<1> HIDE DEF P, Q
<1>5. \A i \in Q : more[i] = rows[i] /\ rows[i] \in Snap
  BY <1>1, <1>4
<1>6. IsFiniteSet(Q) /\ Cardinality(Q) \in Nat /\ Cardinality(P) = Cardinality(Q) + 1
  BY <1>1, <1>4, PlacesFinite, FS_AddElement
<1>7. /\ \A x \in P : volc[x] \in Int /\ feec[x] \in Int
      /\ volc[n + 1] = s.volume /\ feec[n + 1] = s.fees
      /\ \A x \in Q : volc[x] = vol[x] /\ feec[x] = fee[x]
  BY <1>1, <1>4, <1>5, <1>t DEF Snap
<1> HIDE DEF vol, fee, volc, feec
<1>8. /\ SumFunctionOnSet(volc, P) = s.volume + SumFunctionOnSet(vol, Q)
      /\ SumFunctionOnSet(feec, P) = s.fees + SumFunctionOnSet(fee, Q)
  <2>1. /\ SumFunctionOnSet(volc, Q \cup {n + 1}) = volc[n + 1] + SumFunctionOnSet(volc, Q)
        /\ SumFunctionOnSet(feec, Q \cup {n + 1}) = feec[n + 1] + SumFunctionOnSet(feec, Q)
    BY <1>4, <1>6, <1>7, SumAdd
  <2>2. /\ SumFunctionOnSet(volc, Q) = SumFunctionOnSet(vol, Q)
        /\ SumFunctionOnSet(feec, Q) = SumFunctionOnSet(fee, Q)
    BY <1>6, <1>7, SumEqual
  <2> QED
    BY <1>4, <1>7, <2>1, <2>2
<1>9. c.volume = SumFunctionOnSet(volc, P) /\ c.fees = SumFunctionOnSet(feec, P)
  <2>1. b.volume \in Int /\ b.fees \in Int
    BY DEF Bucket
  <2> QED
    BY <1>2, <1>3, <1>8, <1>t, <2>1
<1>10. Liquidity!Min(P) = Liquidity!Min(Q) /\ Liquidity!Max(P) = n + 1 /\ Liquidity!Min(Q) \in Q
  <2>1. Liquidity!Min(Q) \in Q /\ \A k \in Q : Liquidity!Min(Q) <= k
    BY <1>1, <1>3, <1>4, FirstAndLast
  <2>2. P \in SUBSET (1 .. n + 1) /\ n + 1 \in Nat /\ n + 1 \in P /\ Liquidity!Min(Q) \in P
    BY <1>1, <1>4, <2>1
  <2>3. ASSUME NEW k \in P PROVE Liquidity!Min(Q) <= k /\ n + 1 >= k
    <3>1. Liquidity!Min(Q) \in 1 .. n
      BY <1>4, <2>1
    <3>2. k = n + 1 \/ (k \in Q /\ k \in 1 .. n)
      BY <1>4
    <3> QED
      BY <1>1, <2>1, <3>1, <3>2
  <2> QED
    <3>1. \A k \in P : Liquidity!Min(Q) <= k
      BY <2>3
    <3>2. \A k \in P : n + 1 >= k
      BY <2>3
    <3> QED
      BY <2>1, <2>2, <3>1, <3>2, FirstIs, LastIs
<1>11. c.open = more[Liquidity!Min(P)].price /\ c.close = more[Liquidity!Max(P)].price
  BY <1>1, <1>2, <1>3, <1>5, <1>10
<1>12. ASSUME NEW j \in P PROVE c.low <= more[j].price /\ more[j].price <= c.high
  <2>1. CASE j = n + 1
    BY <1>1, <1>2, <1>t, <2>1
  <2>2. CASE j # n + 1
    <3>1. j \in Q
      BY <1>4, <2>2
    <3>2. b.low <= rows[j].price /\ rows[j].price <= b.high /\ more[j] = rows[j] /\ rows[j].price \in Nat
      BY <1>3, <1>5, <3>1 DEF Snap
    <3> QED
      BY <1>2, <1>t, <3>2, SMTT(30)
  <2> QED
    BY <2>1, <2>2
<1>13. {c.low, c.high} \subseteq {more[j].price : j \in P}
  <2>1. s.price \in {more[j].price : j \in P}
    BY <1>1, <1>4
  <2>2. {rows[j].price : j \in Q} \subseteq {more[j].price : j \in P}
    BY <1>4, <1>5
  <2> QED
    BY <1>2, <1>3, <2>1, <2>2
<1>14. P # {} /\ c.count = Cardinality(P)
  BY <1>2, <1>3, <1>4, <1>6
<1>15. Liquidity!DayTrue(more, c)
  BY <1>9, <1>11, <1>12, <1>13, <1>14, DayTrueUnfolded DEF P, volc, feec
<1> QED
  BY <1>15 DEF more, c

\* A bucket with one more snapshot is a bucket.
LEMMA ExtendedIsBucket ==
    ASSUME NEW s \in Snap, NEW b \in Bucket
    PROVE  Liquidity!Extended(b, s) \in Bucket
<1> DEFINE c == Liquidity!Extended(b, s)
           a1 == (b.avg_reserve_a * b.count + s.reserve_a) \div (b.count + 1)
           a2 == (b.avg_reserve_b * b.count + s.reserve_b) \div (b.count + 1)
<1>1. /\ s.price \in Nat /\ s.volume \in Int /\ s.fees \in Int /\ s.reserve_a \in Nat /\ s.reserve_b \in Nat
      /\ b.avg_reserve_a \in Nat /\ b.avg_reserve_b \in Nat /\ b.count \in Nat \ {0}
      /\ b.volume \in Int /\ b.fees \in Int /\ b.high \in Nat /\ b.low \in Nat /\ b.open \in Nat
      /\ b.timestamp \in Nat
  BY DEF Snap, Bucket
<1>2. a1 \in Nat /\ a2 \in Nat
  <2>1. /\ b.avg_reserve_a * b.count + s.reserve_a \in Nat
        /\ b.avg_reserve_b * b.count + s.reserve_b \in Nat /\ b.count + 1 \in Nat \ {0}
    BY <1>1
  <2> QED
    BY <2>1, DivisionBounds
<1> DEFINE high == IF s.price > b.high THEN s.price ELSE b.high
           low == IF s.price < b.low THEN s.price ELSE b.low
           close == s.price
           volume == b.volume + s.volume
           fees == b.fees + s.fees
           count == b.count + 1
<1>3. c = [b EXCEPT !.high = high, !.low = low, !.close = close, !.volume = volume,
                    !.fees = fees, !.avg_reserve_a = a1, !.avg_reserve_b = a2,
                    !.count = count]
  BY DEF Liquidity!Extended
<1>4. high \in Nat /\ low \in Nat /\ close \in Nat
  BY <1>1
<1>5. volume \in Int /\ fees \in Int /\ count \in Nat \ {0}
  BY <1>1
<1> HIDE DEF a1, a2, high, low, close, volume, fees, count, c
<1>6. c \in Bucket
  BY ONLY b \in Bucket, <1>2, <1>3, <1>4, <1>5 DEF Bucket
<1> QED
  BY <1>6 DEF c

\* The bucket of a day that begins is a bucket.
LEMMA NewIsBucket ==
    ASSUME Day \in Nat \ {0}, NEW s \in Snap
    PROVE  Liquidity!NewBucket(s) \in Bucket
<1>1. Liquidity!DayOf(s.timestamp) \in Nat
  BY DayOfTime DEF Snap
<1> QED
  BY <1>1 DEF Liquidity!NewBucket, Bucket, Snap
-----------------------------------------------------------------------------
(***************************************************************************)
(* The inductive invariant.                                                *)
(***************************************************************************)

\* Snapshots in the order of their times.
Ordered(rows) == \A j, k \in 1 .. Len(rows) : j <= k => rows[j].timestamp <= rows[k].timestamp

\* A ring of daily buckets keeps the newest of the days of the snapshots, in their order:
\* the last is the day of the last snapshot, and each says what its snapshots say.
DaysOf(r, rows, d) ==
    /\ d \in Seq(Bucket) /\ RingOf(r, d, MaxBuckets)
    /\ \A j, k \in 1 .. Len(d) : j < k => d[j].timestamp < d[k].timestamp
    /\ \A k \in 1 .. Len(d) : Liquidity!DayTrue(rows, d[k])
    /\ d = <<>> <=> rows = <<>>
    /\ d # <<>> => d[Len(d)].timestamp = Liquidity!DayOf(rows[Len(rows)].timestamp)

\* What is kept of a pool is what was recorded of it.
PoolKept(p) ==
    /\ Ordered(log[p]) /\ \A j \in 1 .. Len(log[p]) : log[p][j].timestamp <= now
    /\ RingOf(ring[p], log[p], MaxSnapshots)
    /\ \E d : DaysOf(daily[p], log[p], d)

\* The inductive invariant: that of every pool, and the list of the pools recorded.
LiquidityInv ==
    /\ now \in 0 .. MaxNow
    /\ ring = [p \in Pool |-> ring[p]] /\ daily = [p \in Pool |-> daily[p]]
    /\ log \in [Pool -> Seq(Snap)]
    /\ pools \in Seq(Pool)
    /\ \A p \in Pool : (\E k \in 1 .. Len(pools) : pools[k] = p) <=> log[p] # <<>>
    /\ \A j, k \in 1 .. Len(pools) : pools[j] = pools[k] => j = k
    /\ \A p \in Pool : PoolKept(p)

\* What the assumption says of the constants, one by one.
LEMMA LiquidityNumbers ==
    ASSUME Liquidity!LiquidityConstants
    PROVE  /\ Precision \in Nat \ {0} /\ Baseline \in Nat \ {0} /\ MaxSnapshots \in Nat \ {0}
           /\ MaxBuckets \in Nat \ {0} /\ Day \in Nat \ {0} /\ MaxNow \in Nat
           /\ Reserves \subseteq Nat \X Nat /\ Volumes \subseteq Int /\ EntryPrices \subseteq Int
BY DEF Liquidity!LiquidityConstants

\* Nothing is recorded of any pool at first.
LEMMA LiquidityInit ==
    ASSUME Liquidity!LiquidityConstants, Liquidity!Init
    PROVE  LiquidityInv
<1> USE LiquidityNumbers
<1>1. now \in 0 .. MaxNow /\ log \in [Pool -> Seq(Snap)] /\ pools = <<>> /\ pools \in Seq(Pool)
  BY DEF Liquidity!Init
<1>2. ring = [p \in Pool |-> ring[p]] /\ daily = [p \in Pool |-> daily[p]]
  BY DEF Liquidity!Init
<1>3. ASSUME NEW p \in Pool PROVE PoolKept(p)
  <2>1. /\ log[p] = <<>>
        /\ ring[p] = Liquidity!EmptyRing(MaxSnapshots) /\ daily[p] = Liquidity!EmptyRing(MaxBuckets)
    BY DEF Liquidity!Init
  <2>2. /\ RingOf(ring[p], <<>>, MaxSnapshots)
        /\ RingOf(daily[p], <<>>, MaxBuckets)
    BY <2>1, RingEmpty
  <2>3. <<>> \in Seq(Bucket) /\ Len(<<>>) = 0
    OBVIOUS
  <2>4. DaysOf(daily[p], <<>>, <<>>)
    BY <2>2, <2>3 DEF DaysOf
  <2>5. Ordered(<<>>)
    BY DEF Ordered
  <2> QED
    BY <2>1, <2>2, <2>4, <2>5 DEF PoolKept
<1>4. \A p \in Pool : (\E k \in 1 .. Len(pools) : pools[k] = p) <=> log[p] # <<>>
  BY <1>1 DEF Liquidity!Init
<1>5. \A j, k \in 1 .. Len(pools) : pools[j] = pools[k] => j = k
  BY <1>1
<1> QED
  BY <1>1, <1>2, <1>3, <1>4, <1>5 DEF LiquidityInv

\* A snapshot of reserves is one.
LEMMA SnapshotIsSnap ==
    ASSUME Liquidity!LiquidityConstants, now \in Nat, NEW reserves \in Reserves, NEW volume \in Volumes
    PROVE  Liquidity!Snapshot(reserves, volume) \in Snap
<1> DEFINE a == reserves[1]
           b == reserves[2]
           price == Liquidity!Price(a, b)
           fees == volume \div 2
<1>1. a \in Nat /\ b \in Nat /\ volume \in Int /\ Precision \in Nat \ {0}
  BY LiquidityNumbers
<1>2. fees \in Int
  BY <1>1
<1>3. price \in Nat
  <2> HIDE DEF a, b
  <2>1. CASE a > 0
    <3>1. b * Precision \in Nat /\ a \in Nat \ {0}
      BY <1>1, <2>1
    <3>2. (b * Precision) \div a \in Nat
      BY <3>1, DivisionBounds
    <3> QED
      BY <2>1, <3>2 DEF Liquidity!Price
  <2>2. CASE ~(a > 0)
    BY <2>2 DEF Liquidity!Price
  <2> QED
    BY <2>1, <2>2
<1>4. Liquidity!Snapshot(reserves, volume) =
          [timestamp |-> now, reserve_a |-> a, reserve_b |-> b, price |-> price,
           volume |-> volume, fees |-> fees]
  BY DEF Liquidity!Snapshot
<1> HIDE DEF a, b, price, fees
<1> QED
  BY <1>1, <1>2, <1>3, <1>4 DEF Snap

\* A snapshot extends the bucket of its day or begins the next.
LEMMA DayRecorded ==
    ASSUME Liquidity!LiquidityConstants, NEW rows \in Seq(Snap), NEW s \in Snap, NEW r, NEW d,
           DaysOf(r, rows, d), Ordered(rows),
           \A j \in 1 .. Len(rows) : rows[j].timestamp <= s.timestamp
    PROVE  \E e : DaysOf(Liquidity!Bucketed(r, s), Append(rows, s), e)
<1> DEFINE more == Append(rows, s)
           today == Liquidity!DayOf(s.timestamp)
           w == Liquidity!Bucketed(r, s)
           n == Len(d)
<1>1. MaxBuckets \in Nat \ {0} /\ Day \in Nat \ {0}
  BY LiquidityNumbers
<1>2. /\ d \in Seq(Bucket) /\ RingOf(r, d, MaxBuckets)
      /\ \A j, k \in 1 .. n : j < k => d[j].timestamp < d[k].timestamp
      /\ \A k \in 1 .. n : Liquidity!DayTrue(rows, d[k])
      /\ d = <<>> <=> rows = <<>>
      /\ d # <<>> => d[n].timestamp = Liquidity!DayOf(rows[Len(rows)].timestamp)
  BY DEF DaysOf
<1>3. n \in Nat /\ \A k \in 1 .. n : d[k] \in Bucket
  BY <1>2
<1>t. ASSUME NEW k \in 1 .. n PROVE d[k].timestamp \in Nat
  <2>1. d[k] \in Bucket
    BY <1>3
  <2> HIDE DEF n
  <2> QED
    BY ONLY <2>1 DEF Bucket
<1>r. r.count = n
  BY ONLY <1>1, <1>2, RingParts
<1>4. more # <<>> /\ more[Len(more)] = s
  OBVIOUS
<1>5. s.timestamp \in Nat /\ today \in Nat
  <2>1. s.timestamp \in Nat
    BY DEF Snap
  <2> QED
    BY <1>1, <2>1, DayOfTime
<1>6. d = <<>> => Liquidity!Latest(r).timestamp = -1
  <2>1. d = <<>> => r.count = 0
    BY <1>r, Len(<<>>) = 0
  <2> QED
    BY <2>1 DEF Liquidity!Latest, Liquidity!NoEntry
<1>7. d # <<>> => Liquidity!Latest(r) = d[n]
  BY <1>1, <1>2, RingLast
<1>8. CASE Liquidity!Latest(r).timestamp = today
  <2>1. d # <<>> /\ n >= 1 /\ d[n].timestamp = today
    BY <1>2, <1>3, <1>5, <1>6, <1>7, <1>8
  <2> DEFINE b == Liquidity!Extended(d[n], s)
             e == [d EXCEPT ![n] = b]
  <2>2. b \in Bucket /\ b.timestamp = today
    <3>1. d[n] \in Bucket
      BY <1>3, <2>1
    <3>2. b \in Bucket
      BY <3>1, ExtendedIsBucket
    <3> HIDE DEF n
    <3>3. b.timestamp = d[n].timestamp
      BY <3>1 DEF Liquidity!Extended, Bucket
    <3> QED
      BY <2>1, <3>2, <3>3
  <2>3. w = [r EXCEPT !.slots[Liquidity!LastSlot(r)] = b]
    <3>1. r.slots[Liquidity!LastSlot(r)] = d[n]
      <4>1. r.count > 0
        BY <1>r, <1>3, <2>1
      <4> QED
        BY <1>7, <2>1, <4>1 DEF Liquidity!Latest
    <3> QED
      BY <1>8, <3>1 DEF Liquidity!Bucketed
  <2> HIDE DEF b
  <2>4. RingOf(w, e, MaxBuckets)
    <3>1. RingOf([r EXCEPT !.slots[Liquidity!LastSlot(r)] = b], [d EXCEPT ![Len(d)] = b], MaxBuckets)
      BY <1>1, <1>2, <2>1, <2>2, RingReplaced
    <3> QED
      BY <2>3, <3>1
  <2>5. /\ e \in Seq(Bucket) /\ Len(e) = n /\ e[n] = b /\ e # <<>>
        /\ \A k \in 1 .. n : k # n => e[k] = d[k]
    BY <1>2, <1>3, <2>1, <2>2
  <2> HIDE DEF e
  <2>6. ASSUME NEW j \in 1 .. n, NEW k \in 1 .. n, j < k PROVE e[j].timestamp < e[k].timestamp
    <3>1. d[j].timestamp < d[k].timestamp
      BY <1>2, <2>6
    <3>2. e[j] = d[j]
      BY <1>3, <2>5, <2>6
    <3>3. e[k].timestamp = d[k].timestamp
      BY <2>1, <2>2, <2>5
    <3> QED
      BY <3>1, <3>2, <3>3
  <2>7. ASSUME NEW k \in 1 .. n PROVE Liquidity!DayTrue(more, e[k])
    <3>1. CASE k = n
      <4>1. d[n] \in Bucket /\ Liquidity!DayTrue(rows, d[n])
        BY <1>2, <1>3, <2>1
      <4> HIDE DEF n
      <4>2. Liquidity!DayTrue(Append(rows, s), Liquidity!Extended(d[n], s))
        BY <2>1, <4>1, DayExtended
      <4> QED
        BY <2>5, <3>1, <4>2 DEF b
    <3>2. CASE k # n
      <4>1. k < n /\ d[k] \in Bucket /\ Liquidity!DayTrue(rows, d[k])
        BY <1>2, <1>3, <3>2
      <4>2. d[k].timestamp < d[n].timestamp
        BY <1>2, <2>1, <4>1
      <4>3. d[k].timestamp # today
        BY <1>5, <2>1, <4>1, <4>2 DEF Bucket
      <4> QED
        BY <2>5, <3>2, <4>1, <4>3, DayKept
    <3> QED
      BY <3>1, <3>2
  <2>8. DaysOf(w, more, e)
    <3> HIDE DEF more, w
    <3> QED
      BY <1>4, <2>2, <2>4, <2>5, <2>6, <2>7 DEF DaysOf
  <2> QED
    BY <2>8
<1>9. CASE Liquidity!Latest(r).timestamp # today
  <2> DEFINE b == Liquidity!NewBucket(s)
             e == Append(d, b)
  <2>1. b \in Bucket /\ b.timestamp = today
    BY <1>1, NewIsBucket DEF Liquidity!NewBucket
  <2>2. w = Liquidity!Pushed(r, b)
    BY <1>9 DEF Liquidity!Bucketed
  <2>3. ASSUME rows # <<>>
        PROVE  Liquidity!DayOf(rows[Len(rows)].timestamp) < today
    <3> DEFINE z == rows[Len(rows)].timestamp
    <3>1. Len(rows) \in 1 .. Len(rows) /\ rows[Len(rows)] \in Snap
      BY <2>3
    <3>2. z \in Nat /\ z <= s.timestamp
      BY <3>1 DEF Snap
    <3>3. Liquidity!DayOf(z) <= today /\ Liquidity!DayOf(z) \in Nat
      BY <1>1, <1>5, <3>2, DaysFollow, DayOfTime
    <3>4. Liquidity!DayOf(z) # today
      BY <1>2, <1>7, <1>9, <2>3
    <3> QED
      BY <1>5, <3>3, <3>4
  <2>4. ASSUME NEW j \in 1 .. Len(rows)
        PROVE  Liquidity!DayOf(rows[j].timestamp) # today
    <3>1. rows # <<>> /\ Len(rows) \in 1 .. Len(rows) /\ j <= Len(rows)
      OBVIOUS
    <3>2. rows[j] \in Snap /\ rows[Len(rows)] \in Snap
      BY <3>1
    <3>3. rows[j].timestamp <= rows[Len(rows)].timestamp
      BY <3>1 DEF Ordered
    <3>4. rows[j].timestamp \in Nat /\ rows[Len(rows)].timestamp \in Nat
      BY <3>2 DEF Snap
    <3>5. /\ Liquidity!DayOf(rows[j].timestamp) <= Liquidity!DayOf(rows[Len(rows)].timestamp)
          /\ Liquidity!DayOf(rows[j].timestamp) \in Nat
          /\ Liquidity!DayOf(rows[Len(rows)].timestamp) \in Nat
      BY <1>1, <3>3, <3>4, DaysFollow, DayOfTime
    <3> QED
      BY <1>5, <2>3, <3>1, <3>5
  <2>5. Liquidity!DayTrue(more, b)
    BY <2>4, DayBegun
  <2> HIDE DEF b
  <2>6. RingOf(w, e, MaxBuckets)
    BY <1>1, <1>2, <2>1, <2>2, RingPushed
  <2>7. /\ e \in Seq(Bucket) /\ Len(e) = n + 1 /\ e[n + 1] = b /\ e # <<>>
        /\ \A k \in 1 .. n : e[k] = d[k]
    BY ONLY <1>2, <2>1, SMTT(30)
  <2> HIDE DEF e
  <2>8. ASSUME NEW k \in 1 .. n PROVE d[k].timestamp < today
    <3>1. d # <<>> /\ rows # <<>> /\ n \in 1 .. n
      BY <1>2, <1>3
    <3>2. d[n].timestamp < today
      BY <1>2, <2>3, <3>1
    <3>t. d[k].timestamp \in Int /\ d[n].timestamp \in Int
      BY <1>t, <3>1
    <3>3. d[k].timestamp <= d[n].timestamp
      <4>1. CASE k = n
        BY <3>t, <4>1
      <4>2. CASE k # n
        <5>1. d[k].timestamp < d[n].timestamp
          BY <1>2, <1>3, <3>1, <4>2
        <5> QED
          BY <3>t, <5>1
      <4> QED
        BY <4>1, <4>2
    <3>4. d[k].timestamp \in Nat /\ d[n].timestamp \in Nat
      BY <1>3, <3>1 DEF Bucket
    <3> QED
      BY <1>5, <3>2, <3>3, <3>4, SMTT(30)
  <2>9. ASSUME NEW j \in 1 .. n + 1, NEW k \in 1 .. n + 1, j < k
        PROVE  e[j].timestamp < e[k].timestamp
    <3>1. j \in 1 .. n /\ e[j] = d[j]
      BY <1>3, <2>7, <2>9
    <3>2. CASE k = n + 1
      BY <2>1, <2>7, <2>8, <3>1, <3>2
    <3>3. CASE k # n + 1
      <4>1. k \in 1 .. n
        BY <1>3, <3>3
      <4> QED
        BY <1>2, <2>7, <2>9, <3>1, <4>1
    <3> QED
      BY <3>2, <3>3
  <2>10. ASSUME NEW k \in 1 .. n + 1 PROVE Liquidity!DayTrue(more, e[k])
    <3>1. CASE k = n + 1
      BY <2>5, <2>7, <3>1
    <3>2. CASE k # n + 1
      <4>1. k \in 1 .. n
        BY <1>3, <3>2
      <4>2. d[k].timestamp < today /\ d[k].timestamp \in Nat
        BY <1>3, <2>8, <4>1 DEF Bucket
      <4>3. today # d[k].timestamp
        BY <1>5, <4>2
      <4>4. Liquidity!DayTrue(rows, d[k])
        BY <1>2, <4>1
      <4> QED
        BY <2>7, <4>1, <4>3, <4>4, DayKept
    <3> QED
      BY <3>1, <3>2
  <2>11. DaysOf(w, more, e)
    <3> HIDE DEF more, w
    <3> QED
      BY <1>4, <2>1, <2>6, <2>7, <2>9, <2>10 DEF DaysOf
  <2> QED
    BY <2>11
<1> QED
  BY <1>8, <1>9

\* record_pool_state keeps the invariant: the ring and the day take the snapshot, and the
\* pool is listed.
LEMMA RecordKeeps ==
    ASSUME Liquidity!LiquidityConstants, LiquidityInv, NEW p \in Pool, NEW reserves \in Reserves,
           NEW volume \in Volumes, Liquidity!RecordPoolState(p, reserves, volume)
    PROVE  LiquidityInv'
<1> DEFINE s == Liquidity!Snapshot(reserves, volume)
           rows == log[p]
           more == Append(log[p], s)
<1>c. MaxSnapshots \in Nat \ {0} /\ MaxBuckets \in Nat \ {0} /\ MaxNow \in Nat
  BY LiquidityNumbers
<1>1. /\ now \in 0 .. MaxNow /\ log \in [Pool -> Seq(Snap)] /\ pools \in Seq(Pool)
      /\ DOMAIN ring = Pool /\ DOMAIN daily = Pool
      /\ \A q \in Pool : (\E k \in 1 .. Len(pools) : pools[k] = q) <=> log[q] # <<>>
      /\ \A j, k \in 1 .. Len(pools) : pools[j] = pools[k] => j = k
      /\ \A q \in Pool : PoolKept(q)
  BY DEF LiquidityInv
<1>2. s \in Snap /\ s.timestamp = now
  <2>1. now \in Nat
    BY <1>1, <1>c
  <2> QED
    BY <2>1, SnapshotIsSnap DEF Liquidity!Snapshot
<1>3. /\ ring' = [ring EXCEPT ![p] = Liquidity!Pushed(@, s)]
      /\ daily' = [daily EXCEPT ![p] = Liquidity!Bucketed(@, s)]
      /\ log' = [log EXCEPT ![p] = Append(@, s)]
      /\ now' = now
      /\ pools' = IF p \in Liquidity!ToSet(pools) THEN pools ELSE Append(pools, p)
  BY DEF Liquidity!RecordPoolState
<1> HIDE DEF s
<1>4. /\ ring' = [q \in Pool |-> ring'[q]] /\ daily' = [q \in Pool |-> daily'[q]]
      /\ ring'[p] = Liquidity!Pushed(ring[p], s) /\ daily'[p] = Liquidity!Bucketed(daily[p], s)
      /\ \A q \in Pool : q # p => ring'[q] = ring[q] /\ daily'[q] = daily[q]
  BY <1>1, <1>3
<1>5. /\ rows \in Seq(Snap) /\ more \in Seq(Snap)
      /\ log' \in [Pool -> Seq(Snap)] /\ log'[p] = more
      /\ \A q \in Pool : q # p => log'[q] = log[q]
  BY <1>1, <1>2, <1>3
<1>6. ASSUME NEW q \in Pool, q # p PROVE PoolKept(q)'
  <2>1. PoolKept(q) /\ log'[q] = log[q] /\ ring'[q] = ring[q] /\ daily'[q] = daily[q] /\ now' = now
    BY <1>1, <1>3, <1>4, <1>5, <1>6
  <2> QED
    BY <2>1 DEF PoolKept, Ordered
<1>7. PoolKept(p)'
  <2>1. /\ Ordered(rows) /\ \A j \in 1 .. Len(rows) : rows[j].timestamp <= now
        /\ RingOf(ring[p], rows, MaxSnapshots)
    BY <1>1 DEF PoolKept
  <2>2. PICK d : DaysOf(daily[p], rows, d)
    BY <1>1 DEF PoolKept
  <2> HIDE DEF rows
  <2>3. more = Append(rows, s)
    BY DEF rows
  <2> HIDE DEF more
  <2>4. RingOf(ring'[p], more, MaxSnapshots)
    BY <1>2, <1>4, <1>5, <1>c, <2>1, <2>3, RingPushed
  <2>5. \E e : DaysOf(daily'[p], more, e)
    <3>1. \E e : DaysOf(Liquidity!Bucketed(daily[p], s), Append(rows, s), e)
      BY <1>2, <1>5, <2>1, <2>2, DayRecorded
    <3> QED
      BY <1>4, <2>3, <3>1
  <2>6. /\ Len(rows) \in Nat /\ Len(more) = Len(rows) + 1 /\ more[Len(rows) + 1] = s
        /\ \A j \in 1 .. Len(rows) : more[j] = rows[j] /\ rows[j] \in Snap
    BY <1>2, <1>5, <2>3
  <2>7. now \in Int /\ \A j \in 1 .. Len(rows) : rows[j].timestamp \in Int
    BY <1>1, <1>c, <2>6 DEF Snap
  <2>8. ASSUME NEW j \in 1 .. Len(more) PROVE more[j].timestamp <= now /\ more[j].timestamp \in Int
    <3>1. j = Len(rows) + 1 \/ j \in 1 .. Len(rows)
      BY <2>6
    <3> QED
      BY <1>2, <2>1, <2>6, <2>7, <3>1
  <2>9. Ordered(more)
    <3> SUFFICES ASSUME NEW j \in 1 .. Len(more), NEW k \in 1 .. Len(more), j <= k
                 PROVE  more[j].timestamp <= more[k].timestamp
      BY DEF Ordered
    <3>1. CASE k = Len(rows) + 1
      BY <1>2, <2>6, <2>8, <3>1
    <3>2. CASE k # Len(rows) + 1
      <4>1. j \in 1 .. Len(rows) /\ k \in 1 .. Len(rows)
        BY <2>6, <3>2
      <4> QED
        BY <2>1, <2>6, <4>1 DEF Ordered
    <3> QED
      BY <3>1, <3>2
  <2> QED
    BY <1>3, <1>5, <2>4, <2>5, <2>8, <2>9 DEF PoolKept
<1>8. Liquidity!ToSet(pools) = {pools[k] : k \in 1 .. Len(pools)}
  BY <1>1 DEF Liquidity!ToSet
<1>9. log'[p] # <<>>
  BY <1>5
<1>10. /\ pools' \in Seq(Pool)
       /\ \A q \in Pool : (\E k \in 1 .. Len(pools') : pools'[k] = q) <=> log'[q] # <<>>
       /\ \A j, k \in 1 .. Len(pools') : pools'[j] = pools'[k] => j = k
  <2>1. CASE p \in Liquidity!ToSet(pools)
    <3>1. pools' = pools /\ \E k \in 1 .. Len(pools) : pools[k] = p
      BY <1>3, <1>8, <2>1
    <3> HIDE DEF more
    <3> QED
      BY <1>1, <1>5, <1>9, <3>1, SMTT(30)
  <2>2. CASE p \notin Liquidity!ToSet(pools)
    <3> DEFINE n == Len(pools)
    <3>1. pools' = Append(pools, p) /\ \A k \in 1 .. n : pools[k] # p
      BY <1>3, <1>8, <2>2
    <3>2. /\ n \in Nat /\ pools' \in Seq(Pool) /\ Len(pools') = n + 1 /\ pools'[n + 1] = p
          /\ \A k \in 1 .. n : pools'[k] = pools[k]
      BY <1>1, <3>1
    <3>3. ASSUME NEW q \in Pool
          PROVE  (\E k \in 1 .. Len(pools') : pools'[k] = q) <=> log'[q] # <<>>
      <4>1. CASE q = p
        BY <1>9, <3>2, <4>1
      <4>2. CASE q # p
        <5>1. (\E k \in 1 .. Len(pools') : pools'[k] = q) <=> \E k \in 1 .. n : pools[k] = q
          <6> HIDE DEF n
          <6> QED
            BY <3>2, <4>2
        <5> HIDE DEF more
        <5> QED
          BY <1>1, <1>5, <4>2, <5>1
      <4> QED
        BY <4>1, <4>2
    <3>4. ASSUME NEW j \in 1 .. Len(pools'), NEW k \in 1 .. Len(pools'), pools'[j] = pools'[k]
          PROVE  j = k
      <4>1. (j = n + 1 \/ j \in 1 .. n) /\ (k = n + 1 \/ k \in 1 .. n)
        BY <3>2
      <4> HIDE DEF n
      <4> QED
        BY <1>1, <3>1, <3>2, <3>4, <4>1 DEF n
    <3> QED
      BY <3>2, <3>3, <3>4
  <2> QED
    BY <2>1, <2>2
<1>11. now' \in 0 .. MaxNow /\ \A q \in Pool : PoolKept(q)'
  BY <1>1, <1>3, <1>6, <1>7
<1> QED
  BY <1>4, <1>5, <1>10, <1>11 DEF LiquidityInv

\* Time passes, and nothing is recorded.
LEMMA TimeKeepsPools ==
    ASSUME Liquidity!LiquidityConstants, LiquidityInv, Liquidity!Tick
    PROVE  LiquidityInv'
<1>1. /\ now' = now + 1 /\ now < MaxNow /\ MaxNow \in Nat /\ now \in 0 .. MaxNow
      /\ UNCHANGED <<ring, daily, pools, log>>
  BY LiquidityNumbers DEF Liquidity!Tick, Liquidity!poolVars, LiquidityInv
<1>2. ASSUME NEW p \in Pool PROVE PoolKept(p)'
  <2>1. PoolKept(p) /\ log[p] \in Seq(Snap)
    BY DEF LiquidityInv
  <2>2. ASSUME NEW j \in 1 .. Len(log[p]) PROVE log[p][j].timestamp <= now'
    <3>1. log[p][j] \in Snap
      BY <2>1
    <3>2. log[p][j].timestamp \in Nat
      BY <3>1 DEF Snap
    <3> QED
      BY <1>1, <2>1, <3>2 DEF PoolKept
  <2> QED
    BY <1>1, <2>1, <2>2 DEF PoolKept, Ordered
<1> QED
  BY <1>1, <1>2 DEF LiquidityInv

\* A step that changes nothing.
LEMMA PoolsUnchanged ==
    ASSUME LiquidityInv, UNCHANGED Liquidity!vars
    PROVE  LiquidityInv'
<1>1. UNCHANGED <<now, ring, daily, pools, log>>
  BY DEF Liquidity!vars, Liquidity!poolVars
<1>2. ASSUME NEW p \in Pool PROVE PoolKept(p)'
  BY <1>1 DEF LiquidityInv, PoolKept, Ordered
<1> QED
  BY <1>1, <1>2 DEF LiquidityInv
-----------------------------------------------------------------------------
(***************************************************************************)
(* What is calculated.                                                     *)
(***************************************************************************)

\* isqrt is Newton's iteration, so that it returns the integer root.
LEMMA RootOfNumber ==
    ASSUME NEW n \in Nat
    PROVE  /\ Liquidity!Isqrt(n) = NewtonRoot(n) /\ Liquidity!Isqrt(n) \in Nat
           /\ Liquidity!Isqrt(n) * Liquidity!Isqrt(n) <= n
           /\ n < (Liquidity!Isqrt(n) + 1) * (Liquidity!Isqrt(n) + 1)
<1>1. Liquidity!Isqrt(n) = IF n <= 0 THEN 0 ELSE IF n = 1 THEN 1
                           ELSE IF (n + 1) \div 2 < n THEN Root(n)[(n + 1) \div 2] ELSE n
  BY DEF Liquidity!Isqrt, Root, Descent, Better
<1>2. n <= 0 <=> n = 0
  OBVIOUS
<1>3. n = 1 => NewtonRoot(n) = 1
  BY DEF NewtonRoot
<1>4. Liquidity!Isqrt(n) = NewtonRoot(n)
  BY <1>1, <1>2, <1>3 DEF NewtonRoot
<1> QED
  BY <1>4, NewtonRootIsRoot

\* The root of a square.
LEMMA RootOfSquare ==
    ASSUME NEW a \in Nat
    PROVE  Liquidity!Isqrt(a * a) = a
<1> DEFINE r == Liquidity!Isqrt(a * a)
<1>1. a * a \in Nat
  OBVIOUS
<1>2. r \in Nat /\ r * r <= a * a /\ a * a < (r + 1) * (r + 1)
  BY <1>1, RootOfNumber
<1> HIDE DEF r
<1>3. /\ r * r \in Int /\ (r + 1) * (r + 1) \in Int /\ (a + 1) * (a + 1) \in Int
      /\ (a + 1) * (a + 1) = a * a + 2 * a + 1
  BY <1>2
<1>4. ~(r >= a + 1)
  <2> SUFFICES ASSUME r >= a + 1 PROVE FALSE
    OBVIOUS
  <2>1. (a + 1) * (a + 1) <= r * r
    BY <1>2, SquareMonotonic
  <2> QED
    BY <1>1, <1>2, <1>3, <2>1
<1>5. ~(r + 1 <= a)
  <2> SUFFICES ASSUME r + 1 <= a PROVE FALSE
    OBVIOUS
  <2>1. (r + 1) * (r + 1) <= a * a
    BY <1>2, SquareMonotonic
  <2> QED
    BY <1>1, <1>2, <1>3, <2>1
<1> QED
  BY <1>2, <1>4, <1>5 DEF r

\* calculate_impermanent_loss: the loss is a share of the whole, a position is worth no
\* more than holding, and none is lost while the price stands still.
LEMMA LossBounded ==
    ASSUME Liquidity!LiquidityConstants, NEW price \in Nat, NEW entry \in Int
    PROVE  LET loss == Liquidity!ImpermanentLoss(price, entry, Precision) IN
           /\ loss.il \in 0 .. Precision /\ loss.current_value \in 0 .. loss.hodl_value
           /\ entry = price => loss.il = 0
<1> DEFINE P == Precision
           value == P
           loss == Liquidity!ImpermanentLoss(price, entry, value)
<1>1. P \in Nat \ {0}
  BY LiquidityNumbers
<1>2. CASE entry <= 0 \/ price <= 0
  <2>1. loss = [il |-> 0, hodl_value |-> value, current_value |-> value]
    BY <1>2 DEF Liquidity!ImpermanentLoss
  <2> QED
    BY <1>1, <2>1
<1>3. CASE ~(entry <= 0 \/ price <= 0)
  <2> DEFINE ratio == (price * P) \div entry
             root == Liquidity!Isqrt(ratio * P)
             part == ((2 * root) * P) \div (P + ratio)
             factor == P - part
             il == IF factor > 0 THEN factor ELSE 0
             hodl == (value * (P + ratio)) \div (2 * P)
             current == (hodl * (P - il)) \div P
  <2>1. loss = [il |-> il, hodl_value |-> hodl, current_value |-> current]
    BY <1>3 DEF Liquidity!ImpermanentLoss
  <2>2. entry \in Nat \ {0} /\ price \in Nat \ {0}
    BY <1>3
  <2>3. ratio \in Nat /\ price * P \in Nat
    BY <1>1, <2>2, DivisionBounds
  <2>4. entry = price => ratio = P
    <3>1. (price * P) \div price = P
      BY <1>1, <2>2, ExactQuotient
    <3> QED
      BY <3>1
  <2> HIDE DEF ratio
  <2>5. root \in Nat
    <3>1. ratio * P \in Nat
      BY <1>1, <2>3
    <3> QED
      BY <3>1, RootOfNumber
  <2>6. entry = price => root = P
    BY <1>1, <2>4, RootOfSquare
  <2> HIDE DEF root
  <2>7. part \in Nat
    <3>1. (2 * root) * P \in Nat /\ P + ratio \in Nat \ {0}
      BY <1>1, <2>3, <2>5
    <3> QED
      BY <3>1, DivisionBounds
  <2>8. entry = price => part = P
    <3> SUFFICES ASSUME entry = price PROVE part = P
      OBVIOUS
    <3>1. 2 * root = 2 * P /\ P + ratio = 2 * P /\ 2 * P \in Nat \ {0}
      BY <1>1, <2>4, <2>6
    <3>2. ((2 * P) * P) \div (2 * P) = P
      BY <1>1, <3>1, ExactQuotient
    <3> QED
      BY <3>1, <3>2
  <2> HIDE DEF part
  <2>9. il \in 0 .. P /\ (entry = price => il = 0)
    BY <1>1, <2>7, <2>8
  <2>10. hodl \in Nat
    <3>1. value * (P + ratio) \in Nat /\ 2 * P \in Nat \ {0}
      BY <1>1, <2>3
    <3> QED
      BY <3>1, DivisionBounds
  <2> HIDE DEF il, hodl
  <2>11. current \in Nat /\ current <= hodl
    <3> DEFINE kept == P - il
    <3>1. kept \in Nat /\ kept <= P
      BY <1>1, <2>9
    <3> HIDE DEF kept
    <3>2. hodl * kept \in Nat /\ hodl * kept <= hodl * P /\ hodl * P = P * hodl
      BY <1>1, <2>10, <3>1
    <3>3. (hodl * kept) \div P \in Nat /\ (hodl * kept) \div P <= hodl
      <4>1. hodl * kept <= P * hodl
        BY <3>2
      <4> QED
        BY <1>1, <2>10, <3>2, <4>1, QuotientAtMost, DivisionBounds
    <3> QED
      BY <3>3 DEF kept
  <2> HIDE DEF current, loss
  <2>12. loss.il = il /\ loss.hodl_value = hodl /\ loss.current_value = current
    BY <2>1
  <2>13. current \in 0 .. hodl
    BY <2>10, <2>11
  <2>14. loss.il \in 0 .. Precision /\ loss.current_value \in 0 .. loss.hodl_value
         /\ (entry = price => loss.il = 0)
    BY <2>9, <2>12, <2>13
  <2> QED
    BY <2>14 DEF loss
<1> QED
  BY <1>2, <1>3

\* get_liquidity_depth: the score is a percentage.
LEMMA ScoreBounded ==
    ASSUME Liquidity!LiquidityConstants, NEW s \in Snap
    PROVE  Liquidity!DepthScore(s) \in 0 .. 100
<1> DEFINE locked == (s.reserve_a * s.price) \div Precision + s.reserve_b
<1>1. Baseline \in Nat \ {0} /\ Precision \in Nat \ {0}
  BY LiquidityNumbers
<1>2. s.reserve_a \in Nat /\ s.price \in Nat /\ s.reserve_b \in Nat
  BY DEF Snap
<1>3. locked \in Nat
  <2>1. s.reserve_a * s.price \in Nat
    BY <1>2
  <2>2. (s.reserve_a * s.price) \div Precision \in Nat
    BY <1>1, <2>1, DivisionBounds
  <2> QED
    BY <1>2, <2>2
<1>4. Liquidity!DepthScore(s) = IF locked >= Baseline THEN 100 ELSE IF locked <= 0 THEN 0
                                ELSE (locked * 100) \div Baseline
  BY DEF Liquidity!DepthScore
<1> HIDE DEF locked
<1>5. CASE locked >= Baseline \/ locked <= 0
  BY <1>1, <1>3, <1>4, <1>5
<1>6. CASE ~(locked >= Baseline \/ locked <= 0)
  <2>1. locked * 100 \in Nat /\ locked * 100 <= Baseline * 100
    BY <1>1, <1>3, <1>6
  <2>2. (locked * 100) \div Baseline \in Nat /\ (locked * 100) \div Baseline <= 100
    BY <1>1, <2>1, QuotientAtMost, DivisionBounds
  <2> QED
    BY <1>4, <1>6, <2>2
<1> QED
  BY <1>5, <1>6

\* The depth of a snapshot.
LEMMA DepthOfSnap ==
    ASSUME NEW s \in Snap
    PROVE  Liquidity!Depth(s) \in Nat
<1>1. s.reserve_a + s.reserve_b \in Nat
  BY DEF Snap
<1> QED
  BY <1>1 DEF Liquidity!Depth

\* calculate_pool_metrics: the average depth lies between depths it averages.
LEMMA AverageBetween ==
    ASSUME NEW p \in Pool, NEW from \in Nat, Liquidity!Walk(ring[p]) \in Seq(Snap),
           Liquidity!Metrics(p, from).data_points > 0
    PROVE  \E s, t \in Liquidity!ToSet(Liquidity!Walk(ring[p])) :
               /\ Liquidity!Depth(s) <= Liquidity!Metrics(p, from).avg_depth
               /\ Liquidity!Metrics(p, from).avg_depth <= Liquidity!Depth(t)
<1> DEFINE rows == Liquidity!Walk(ring[p])
           places == Liquidity!InWindow(ring[p], from, now)
           n == Cardinality(places)
           f == [i \in places |-> Liquidity!Depth(rows[i])]
           metrics == Liquidity!Metrics(p, from)
<1>1. DOMAIN rows = 1 .. Len(rows) /\ Len(rows) \in Nat /\ \A i \in 1 .. Len(rows) : rows[i] \in Snap
  OBVIOUS
<1>2. places \in SUBSET (1 .. Len(rows))
  BY <1>1 DEF Liquidity!InWindow
<1>3. n = 0 => metrics.data_points = 0
  BY LiquidityCounts DEF Liquidity!Metrics
<1>4. n # 0 => metrics.avg_depth = SumFunctionOnSet(f, places) \div n
  BY LiquidityCounts DEF Liquidity!Metrics, Liquidity!SumOf
<1>5. Liquidity!ToSet(rows) = {rows[i] : i \in 1 .. Len(rows)}
  BY <1>1 DEF Liquidity!ToSet
<1>6. n # 0
  BY <1>3
<1>7. IsFiniteSet(places) /\ n \in Nat
  BY <1>1, <1>2, PlacesFinite
<1>8. places # {}
  BY <1>6, FS_EmptySet
<1> HIDE DEF rows, places, metrics
<1>9. \A i \in places : rows[i] \in Snap /\ f[i] = Liquidity!Depth(rows[i]) /\ f[i] \in Nat
  BY <1>1, <1>2, DepthOfSnap
<1> HIDE DEF f
<1>10. PICK i \in places : \E j \in places : /\ n * f[i] <= SumFunctionOnSet(f, places)
                                             /\ SumFunctionOnSet(f, places) <= n * f[j]
  BY <1>7, <1>8, <1>9, SumBetween
<1>11. PICK j \in places : /\ n * f[i] <= SumFunctionOnSet(f, places)
                           /\ SumFunctionOnSet(f, places) <= n * f[j]
  BY <1>10
<1> HIDE DEF n
<1> DEFINE total == SumFunctionOnSet(f, places)
<1>12. total \in Nat
  <2>1. total \in Int
    BY <1>7, <1>9, SumType
  <2>2. n * f[i] \in Nat
    BY <1>7, <1>9
  <2> QED
    BY <1>10, <1>11, <2>1, <2>2
<1> HIDE DEF total
<1>13. f[i] <= total \div n /\ total \div n <= f[j]
  <2>1. n \in Nat \ {0} /\ f[i] \in Nat /\ f[j] \in Nat /\ n * f[i] <= total /\ total <= n * f[j]
    BY <1>6, <1>7, <1>9, <1>11 DEF total
  <2> QED
    BY <1>12, <2>1, QuotientAtLeast, QuotientAtMost
<1>14. rows[i] \in Liquidity!ToSet(rows) /\ rows[j] \in Liquidity!ToSet(rows)
  BY <1>2, <1>5
<1>15. /\ Liquidity!Depth(rows[i]) <= metrics.avg_depth
       /\ metrics.avg_depth <= Liquidity!Depth(rows[j])
  BY <1>4, <1>6, <1>9, <1>13 DEF total
<1> QED
  BY <1>14, <1>15 DEF rows, metrics

-----------------------------------------------------------------------------
\* The invariant says what the run checks of the pools.
LEMMA PoolsInvImplies ==
    ASSUME Liquidity!LiquidityConstants, LiquidityInv
    PROVE  /\ Liquidity!TypeOK /\ Liquidity!HistoryFaithful
           /\ Liquidity!DaysTrue /\ Liquidity!CalculationsBounded
<1>c. MaxSnapshots \in Nat \ {0} /\ MaxBuckets \in Nat \ {0} /\ Precision \in Nat \ {0}
  BY LiquidityNumbers
<1>1. ASSUME NEW p \in Pool
      PROVE  /\ log[p] \in Seq(Snap) /\ RingOf(ring[p], log[p], MaxSnapshots)
             /\ \E d : DaysOf(daily[p], log[p], d)
  BY DEF LiquidityInv, PoolKept
<1>2. Liquidity!TypeOK
  <2>1. ASSUME NEW p \in Pool
        PROVE  /\ ring[p].head \in 0 .. MaxSnapshots - 1 /\ ring[p].count = Len(log[p])
               /\ daily[p].head \in 0 .. MaxBuckets - 1
    <3>1. RingOf(ring[p], log[p], MaxSnapshots) /\ Len(log[p]) \in Nat
      BY <1>1
    <3>2. PICK d : d \in Seq(Bucket) /\ RingOf(daily[p], d, MaxBuckets)
      BY <1>1 DEF DaysOf
    <3>3. RingOf(daily[p], d, MaxBuckets) /\ Len(d) \in Nat
      BY <3>2
    <3>4. ring[p].head = Len(log[p]) % MaxSnapshots /\ ring[p].count = Len(log[p])
      BY ONLY <1>c, <3>1, RingParts
    <3>5. daily[p].head = Len(d) % MaxBuckets
      BY ONLY <1>c, <3>3, RingParts
    <3>6. Len(log[p]) % MaxSnapshots \in 0 .. MaxSnapshots - 1 /\ Len(d) % MaxBuckets \in 0 .. MaxBuckets - 1
      BY ONLY <1>c, <3>1, <3>3, RemainderRange
    <3> QED
      BY ONLY <3>4, <3>5, <3>6
  <2>2. Liquidity!ToSet(pools) = {p \in Pool : log[p] # <<>>}
    <3>1. Liquidity!ToSet(pools) = {pools[k] : k \in 1 .. Len(pools)}
      <4>1. DOMAIN pools = 1 .. Len(pools)
        BY DEF LiquidityInv
      <4> QED
        BY ONLY <4>1 DEF Liquidity!ToSet
    <3>2. \A k \in 1 .. Len(pools) : pools[k] \in Pool
      BY DEF LiquidityInv
    <3>3. \A p \in Pool : (\E k \in 1 .. Len(pools) : pools[k] = p) <=> log[p] # <<>>
      BY DEF LiquidityInv
    <3> QED
      BY <3>1, <3>2, <3>3
  <2>3. Liquidity!IsInjective(pools)
    <3>1. DOMAIN pools = 1 .. Len(pools)
      BY DEF LiquidityInv
    <3> QED
      BY <3>1 DEF Liquidity!IsInjective, LiquidityInv
  <2> QED
    BY <2>1, <2>2, <2>3 DEF Liquidity!TypeOK, LiquidityInv
<1>3. Liquidity!HistoryFaithful
  <2>1. ASSUME NEW p \in Pool
        PROVE  /\ Liquidity!Walk(ring[p]) = Liquidity!Newest(log[p], MaxSnapshots)
               /\ log[p] # <<>> => Liquidity!Latest(ring[p]) = log[p][Len(log[p])]
    BY <1>1, <1>c, RingWalk, RingLast
  <2> QED
    BY <2>1 DEF Liquidity!HistoryFaithful
<1>4. Liquidity!DaysTrue
  <2> SUFFICES ASSUME NEW p \in Pool, NEW k \in DOMAIN Liquidity!Walk(daily[p])
               PROVE  Liquidity!DayTrue(log[p], Liquidity!Walk(daily[p])[k])
    BY DEF Liquidity!DaysTrue
  <2>1. PICK d : DaysOf(daily[p], log[p], d)
    BY <1>1
  <2>2. /\ d \in Seq(Bucket) /\ RingOf(daily[p], d, MaxBuckets)
        /\ \A j \in 1 .. Len(d) : Liquidity!DayTrue(log[p], d[j])
    BY <2>1 DEF DaysOf
  <2>3. \E j \in 1 .. Len(d) : Liquidity!Walk(daily[p])[k] = d[j]
    BY <1>c, <2>2, WalkMeets
  <2> QED
    BY <2>2, <2>3
<1>5. Liquidity!CalculationsBounded
  <2> SUFFICES ASSUME NEW p \in Pool, Liquidity!Latest(ring[p]) # Liquidity!NoEntry
               PROVE  LET price == Liquidity!Latest(ring[p]).price IN
                      /\ \A entry \in EntryPrices :
                            LET loss == Liquidity!ImpermanentLoss(price, entry, Precision) IN
                            /\ loss.il \in 0 .. Precision /\ loss.current_value \in 0 .. loss.hodl_value
                            /\ entry = price => loss.il = 0
                      /\ Liquidity!Isqrt(price) * Liquidity!Isqrt(price) <= price
                      /\ price < (Liquidity!Isqrt(price) + 1) * (Liquidity!Isqrt(price) + 1)
                      /\ Liquidity!DepthScore(Liquidity!Latest(ring[p])) \in 0 .. 100
                      /\ \A from \in 0 .. now :
                            LET metrics == Liquidity!Metrics(p, from) IN
                            metrics.data_points > 0 =>
                                \E s, t \in Liquidity!ToSet(Liquidity!Walk(ring[p])) :
                                    /\ Liquidity!Depth(s) <= metrics.avg_depth
                                    /\ metrics.avg_depth <= Liquidity!Depth(t)
    BY DEF Liquidity!CalculationsBounded
  <2>1. log[p] \in Seq(Snap) /\ RingOf(ring[p], log[p], MaxSnapshots)
    BY <1>1
  <2>2. log[p] # <<>>
    <3>1. SUFFICES ASSUME log[p] = <<>> PROVE FALSE
      OBVIOUS
    <3>2. ring[p].count = Len(log[p])
      BY <1>c, <2>1, RingParts
    <3>3. ring[p].count = 0
      BY <3>1, <3>2, Len(<<>>) = 0
    <3> QED
      BY <3>3 DEF Liquidity!Latest
  <2> DEFINE z == Liquidity!Latest(ring[p])
  <2>3. z = log[p][Len(log[p])]
    BY <1>c, <2>1, <2>2, RingLast
  <2>4. z \in Snap
    BY <2>1, <2>2, <2>3
  <2> HIDE DEF z
  <2>5. z.price \in Nat
    BY <2>4 DEF Snap
  <2>6. ASSUME NEW entry \in EntryPrices
        PROVE  LET loss == Liquidity!ImpermanentLoss(z.price, entry, Precision) IN
               /\ loss.il \in 0 .. Precision /\ loss.current_value \in 0 .. loss.hodl_value
               /\ entry = z.price => loss.il = 0
    <3>1. entry \in Int
      BY LiquidityNumbers
    <3> QED
      BY <2>5, <3>1, LossBounded
  <2>7. /\ Liquidity!Isqrt(z.price) * Liquidity!Isqrt(z.price) <= z.price
        /\ z.price < (Liquidity!Isqrt(z.price) + 1) * (Liquidity!Isqrt(z.price) + 1)
    BY <2>5, RootOfNumber
  <2>8. Liquidity!DepthScore(z) \in 0 .. 100
    BY <2>4, ScoreBounded
  <2>9. ASSUME NEW from \in 0 .. now, Liquidity!Metrics(p, from).data_points > 0
        PROVE  \E s, t \in Liquidity!ToSet(Liquidity!Walk(ring[p])) :
                   /\ Liquidity!Depth(s) <= Liquidity!Metrics(p, from).avg_depth
                   /\ Liquidity!Metrics(p, from).avg_depth <= Liquidity!Depth(t)
    <3>1. from \in Nat
      OBVIOUS
    <3>2. Liquidity!Walk(ring[p]) \in Seq(Snap)
      BY <1>c, <2>1, WalkMeets
    <3> QED
      BY <2>9, <3>1, <3>2, AverageBetween
  <2> QED
    BY <2>6, <2>7, <2>8, <2>9 DEF z
<1> QED
  BY <1>2, <1>3, <1>4, <1>5

\* The ring of a pool holds the newest of all its snapshots in their order, each daily
\* bucket says what the snapshots of its day say, and what is calculated from them stays
\* in its range.
THEOREM PoolHistoryTrue ==
    ASSUME Liquidity!LiquidityConstants
    PROVE  Liquidity!Spec => [](/\ Liquidity!TypeOK /\ Liquidity!HistoryFaithful
                                /\ Liquidity!DaysTrue /\ Liquidity!CalculationsBounded)
<1>1. Liquidity!Init => LiquidityInv
  BY LiquidityInit
<1>2. LiquidityInv /\ [Liquidity!Next]_(Liquidity!vars) => LiquidityInv'
  <2> SUFFICES ASSUME LiquidityInv, [Liquidity!Next]_(Liquidity!vars) PROVE LiquidityInv'
    OBVIOUS
  <2>1. CASE \E p \in Pool, reserves \in Reserves, volume \in Volumes :
                 Liquidity!RecordPoolState(p, reserves, volume)
    BY <2>1, RecordKeeps
  <2>2. CASE Liquidity!Tick
    BY <2>2, TimeKeepsPools
  <2>3. CASE UNCHANGED Liquidity!vars
    BY <2>3, PoolsUnchanged
  <2> QED
    BY <2>1, <2>2, <2>3 DEF Liquidity!Next
<1>3. LiquidityInv => /\ Liquidity!TypeOK /\ Liquidity!HistoryFaithful
                      /\ Liquidity!DaysTrue /\ Liquidity!CalculationsBounded
  BY PoolsInvImplies
<1> QED
  BY <1>1, <1>2, <1>3, PTL DEF Liquidity!Spec
================================================================================
