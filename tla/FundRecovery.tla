----------------------------- MODULE FundRecovery -----------------------------
(***************************************************************************)
(* The emergency fund recovery contract,                                   *)
(* soroban/src/emergency_fund_recovery.rs: authorised users propose,       *)
(* approve, execute or cancel the payment of tokens the contract holds.    *)
(*                                                                         *)
(* A call is one action; an error undoes all its writes.  Records live in  *)
(* persistent storage under their id, the counter in instance storage:     *)
(* a second initialize_recovery starts the counter again and leaves the    *)
(* records and the authorisations.  The balance of the contract in the     *)
(* token contract is the external variable fund; a transfer beyond it      *)
(* fails, and the call with it.                                            *)
(*                                                                         *)
(* Left out: reasons, events, getters.  One token.                         *)
(***************************************************************************)
EXTENDS Integers, Sequences, FiniteSets

CONSTANTS
    Address,
    Admins,             \* bound: addresses that call initialize_recovery
    Timelocks,          \* bound: seconds passed to it
    MaxTimelock,        \* the longest one it takes, a year
    Grants,             \* bound: sets of rights passed to add_recovery_authorizer
    Amounts,            \* bound: amounts passed to initiate_recovery
    Holdings,           \* tokens the contract holds at first
    MaxRecoveries,      \* bound: recoveries on record
    MaxNow              \* bound: the ledger timestamp

Right == {"initiate", "approve", "execute", "cancel"}
RecoveryId == 1 .. MaxRecoveries

\* What the theorems suppose of the constants.
RecoveryConstants ==
    /\ Admins \subseteq Address
    /\ Timelocks \subseteq Nat /\ MaxTimelock \in Nat
    /\ Grants \subseteq SUBSET Right /\ Amounts \subseteq Nat
    /\ Holdings \in Nat
    /\ MaxRecoveries \in Nat /\ MaxNow \in Nat

VARIABLES
    now,                \* ledger timestamp
    rec_admin, emergency_enabled, recovery_seq, timelock, total_recovered,
    recovery_history,
    authorizations,     \* rights of each address; {} for no record
    recoveries,         \* EmergencyRecovery of each id
    fund,               \* external: tokens held by the contract
    repaid,             \* history: tokens paid out before the last initialisation
    payments            \* history: transfers made

instanceVars == <<rec_admin, emergency_enabled, recovery_seq, timelock,
                  total_recovered, recovery_history, repaid, payments>>
recoveryVars == <<rec_admin, emergency_enabled, recovery_seq, timelock, total_recovered,
                  recovery_history, authorizations, recoveries, fund, repaid, payments>>
vars == <<now, recoveryVars>>

EmergencyRecovery ==
    [status : {"Pending", "Approved", "Executed", "Cancelled"}, initiator : Address,
     destination : Address, amount : Nat, timelock_until : Nat,
     approvals : SUBSET Address, executed_at : Nat]

NoRecovery == [status |-> "None"]

\* The state after the first initialize_recovery.
Init ==
    /\ now = 0
    /\ rec_admin \in Admins
    /\ emergency_enabled = FALSE
    /\ recovery_seq = 0
    /\ timelock \in {secs \in Timelocks : secs \in 1 .. MaxTimelock}
    /\ total_recovered = 0
    /\ recovery_history = <<>>
    /\ authorizations = [a \in Address |-> {}]
    /\ recoveries = [id \in RecoveryId |-> NoRecovery]
    /\ fund = Holdings
    /\ repaid = 0 /\ payments = 0
-----------------------------------------------------------------------------
\* Whoever signs may initialise again.
InitializeRecovery(caller, secs) ==
    /\ caller \in Admins
    /\ secs \in 1 .. MaxTimelock
    /\ rec_admin' = caller
    /\ emergency_enabled' = FALSE
    /\ recovery_seq' = 0
    /\ timelock' = secs
    /\ total_recovered' = 0
    /\ recovery_history' = <<>>
    /\ repaid' = repaid + total_recovered
    /\ UNCHANGED <<now, authorizations, recoveries, fund, payments>>

SetEmergency(caller, enabled) ==
    /\ caller = rec_admin
    /\ emergency_enabled' = enabled
    /\ UNCHANGED <<now, rec_admin, recovery_seq, timelock, total_recovered,
                   recovery_history, authorizations, recoveries, fund, repaid, payments>>

AddRecoveryAuthorizer(caller, user, rights) ==
    /\ caller = rec_admin
    /\ authorizations' = [authorizations EXCEPT ![user] = rights]
    /\ UNCHANGED <<now, instanceVars, recoveries, fund>>

\* required_approvals is always 1.
InitiateRecovery(caller, destination, amount) ==
    /\ recovery_seq < MaxRecoveries
    /\ emergency_enabled
    /\ "initiate" \in authorizations[caller]
    /\ amount > 0
    /\ destination # caller
    /\ recovery_seq' = recovery_seq + 1
    /\ recoveries' = [recoveries EXCEPT ![recovery_seq + 1] =
          [status |-> "Pending", initiator |-> caller, destination |-> destination,
           amount |-> amount, timelock_until |-> now + timelock, approvals |-> {},
           executed_at |-> 0]]
    /\ recovery_history' = Append(recovery_history, recovery_seq + 1)
    /\ UNCHANGED <<now, rec_admin, emergency_enabled, timelock, total_recovered,
                   authorizations, fund, repaid, payments>>

ApproveRecovery(caller, id) ==
    /\ recoveries[id].status = "Pending"
    /\ "approve" \in authorizations[caller]
    /\ caller \notin recoveries[id].approvals
    /\ recoveries' = [recoveries EXCEPT ![id].approvals = @ \cup {caller},
                                        ![id].status = "Approved"]
    /\ UNCHANGED <<now, instanceVars, authorizations, fund>>

\* Mutant: the timelock is not waited for.
ExecuteRecovery_Early(caller, id) ==
    LET amount == recoveries[id].amount
    IN  /\ recoveries[id].status = "Approved"
        /\ "execute" \in authorizations[caller]
        /\ amount <= fund
        /\ fund' = fund - amount
        /\ total_recovered' = total_recovered + amount
        /\ payments' = payments + 1
        /\ recoveries' = [recoveries EXCEPT ![id].status = "Executed",
                                            ![id].executed_at = now]
        /\ UNCHANGED <<now, rec_admin, emergency_enabled, recovery_seq, timelock,
                       recovery_history, authorizations, repaid>>

ExecuteRecovery(caller, id) ==
    LET amount == recoveries[id].amount
    IN  /\ recoveries[id].status = "Approved"
        /\ now >= recoveries[id].timelock_until
        /\ "execute" \in authorizations[caller]
        /\ amount <= fund
        /\ fund' = fund - amount
        /\ total_recovered' = total_recovered + amount
        /\ payments' = payments + 1
        /\ recoveries' = [recoveries EXCEPT ![id].status = "Executed",
                                            ![id].executed_at = now]
        /\ UNCHANGED <<now, rec_admin, emergency_enabled, recovery_seq, timelock,
                       recovery_history, authorizations, repaid>>

CancelRecovery(caller, id) ==
    /\ recoveries[id].status \in {"Pending", "Approved"}
    /\ "cancel" \in authorizations[caller]
    /\ recoveries' = [recoveries EXCEPT ![id].status = "Cancelled"]
    /\ UNCHANGED <<now, instanceVars, authorizations, fund>>

Tick ==
    /\ now < MaxNow
    /\ now' = now + 1
    /\ UNCHANGED recoveryVars

Next ==
    \/ \E caller \in Address :
          \/ \E secs \in Timelocks : InitializeRecovery(caller, secs)
          \/ \E enabled \in BOOLEAN : SetEmergency(caller, enabled)
          \/ \E user \in Address, rights \in Grants :
                AddRecoveryAuthorizer(caller, user, rights)
          \/ \E destination \in Address, amount \in Amounts :
                InitiateRecovery(caller, destination, amount)
          \/ \E id \in RecoveryId :
                \/ ApproveRecovery(caller, id)
                \/ ExecuteRecovery(caller, id)
                \/ CancelRecovery(caller, id)
    \/ Tick

Spec == Init /\ [][Next]_vars
-----------------------------------------------------------------------------
\* Each variable holds values of its type.
TypeOK ==
    /\ now \in 0 .. MaxNow
    /\ rec_admin \in Address /\ emergency_enabled \in BOOLEAN
    /\ recovery_seq \in 0 .. MaxRecoveries
    /\ timelock \in 1 .. MaxTimelock
    /\ total_recovered \in Nat /\ fund \in Nat /\ repaid \in Nat /\ payments \in Nat
    /\ recovery_history \in Seq(RecoveryId)
    /\ authorizations \in [Address -> SUBSET Right]
    /\ recoveries \in [RecoveryId -> EmergencyRecovery \cup {NoRecovery}]

\* What left the contract is what its totals say, across initialisations, and each
\* id of the history since the last one has a record.
RecoveryBooks ==
    /\ fund + total_recovered + repaid = Holdings
    /\ recovery_history = [k \in 1 .. recovery_seq |-> k]
    /\ \A id \in 1 .. recovery_seq : recoveries[id] # NoRecovery
-----------------------------------------------------------------------------
\* A recovery is an approved action.
InProgress(id) == recoveries[id].status \in {"Pending", "Approved"}

Approved == INSTANCE ApprovedAction WITH
    Id <- RecoveryId,
    Voter <- Address,
    clock <- now,
    open <- {id \in RecoveryId : InProgress(id)},
    votes <- [id \in RecoveryId |-> IF InProgress(id) THEN recoveries[id].approvals ELSE {}],
    needed <- [id \in RecoveryId |-> IF InProgress(id) THEN 1 ELSE 0],
    ripe <- [id \in RecoveryId |-> IF InProgress(id) THEN recoveries[id].timelock_until ELSE 0],
    runs <- payments

\* The recovery contract implements the promise of an approved action.
RecoveriesApproved == Approved!Spec
=============================================================================
