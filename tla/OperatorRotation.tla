--------------------------- MODULE OperatorRotation ---------------------------
(***************************************************************************)
(* The bridge operators and their timelocked rotation,                     *)
(* soroban/src/operator_rotation.rs, composed with the permissions of      *)
(* AccessControl, one of which lets its holder cancel a rotation.          *)
(*                                                                         *)
(* A call is one action; a panic rolls it back, so a rotation whose change *)
(* is refused stays pending.  Left out: names, which are only required not *)
(* to be empty, and who added or removed an operator and when.             *)
(***************************************************************************)
EXTENDS AccessControl

CONSTANTS
    Operators,          \* bound: addresses made operators
    DefaultTiming,      \* DEFAULT_ROTATION_DELAY_SECS, DEFAULT_ROTATION_GRACE_PERIOD_SECS
    Timings             \* bound: configurations passed to set_rotation_config

RotationConfig == [delay_secs : Nat \ {0}, grace_period_secs : Nat \ {0}]

ASSUME RotationAssumption ==
    /\ Operators \subseteq Address
    /\ DefaultTiming \in RotationConfig
    /\ Timings \subseteq [delay_secs : Nat, grace_period_secs : Nat]

VARIABLES
    operators,          \* OperatorRotationKey::Operator: each operator's is_active
    rotation_config,    \* OperatorRotationKey::RotationConfig
    pending             \* OperatorRotationKey::PendingRotation, as a set of at most one

rotationVars == <<operators, rotation_config, pending>>
vars == <<now, admin, globally_paused, grants, operators, rotation_config, pending>>

\* A stored operator is never deleted; AllOperators lists exactly the stored ones.
Operator == {"absent", "active", "removed"}

PendingRotation ==
    [add : BOOLEAN, operator : Operators, proposed_at : Nat, executes_at : Nat,
     expires_at : Nat]

IsOperator(a) == operators[a] = "active"

Init ==
    /\ AclInit
    /\ operators = [a \in Operators |-> "absent"]
    /\ rotation_config = DefaultTiming
    /\ pending = {}
-----------------------------------------------------------------------------
\* apply_add_operator: a removed operator is reactivated.
ApplyAdd(a) == operators' = [operators EXCEPT ![a] = "active"]

\* Mutant: the operator to remove is counted among those that stay.
ApplyRemove_CountAll(a) ==
    /\ IsOperator(a)
    /\ \E b \in Operators : IsOperator(b)
    /\ operators' = [operators EXCEPT ![a] = "removed"]

\* apply_remove_operator
ApplyRemove(a) ==
    /\ IsOperator(a)
    /\ \E b \in Operators \ {a} : IsOperator(b)
    /\ operators' = [operators EXCEPT ![a] = "removed"]

\* The direct calls need no rotation and leave a pending one alone.
AddOperator(caller, a) ==
    /\ caller = admin
    /\ ApplyAdd(a)
    /\ UNCHANGED <<ledgerVars, grants, rotation_config, pending>>

RemoveOperator(caller, a) ==
    /\ caller = admin
    /\ ApplyRemove(a)
    /\ UNCHANGED <<ledgerVars, grants, rotation_config, pending>>

\* Mutant: any delay is accepted.
SetRotationConfig_Any(caller, timing) ==
    /\ caller = admin
    /\ rotation_config' = timing
    /\ UNCHANGED <<ledgerVars, grants, operators, pending>>

SetRotationConfig(caller, timing) ==
    /\ caller = admin
    /\ timing.delay_secs > 0 /\ timing.grace_period_secs > 0
    /\ rotation_config' = timing
    /\ UNCHANGED <<ledgerVars, grants, operators, pending>>

\* Mutant: a proposal that went stale gives way to the next.
ProposeRotation_OverStale(caller, add, a) ==
    /\ caller = admin
    /\ \A p \in pending : now >= p.expires_at
    /\ add \/ IsOperator(a)
    /\ pending' = {[add |-> add, operator |-> a, proposed_at |-> now,
                    executes_at |-> now + rotation_config.delay_secs,
                    expires_at |-> now + rotation_config.delay_secs
                                       + rotation_config.grace_period_secs]}
    /\ UNCHANGED <<ledgerVars, grants, operators, rotation_config>>

\* A stale rotation is pending until it is cancelled.
ProposeRotation(caller, add, a) ==
    /\ caller = admin
    /\ pending = {}
    /\ add \/ IsOperator(a)
    /\ pending' = {[add |-> add, operator |-> a, proposed_at |-> now,
                    executes_at |-> now + rotation_config.delay_secs,
                    expires_at |-> now + rotation_config.delay_secs
                                       + rotation_config.grace_period_secs]}
    /\ UNCHANGED <<ledgerVars, grants, operators, rotation_config>>

ExecuteRotation(caller) ==
    /\ caller = admin
    /\ \E p \in pending :
          /\ now \in p.executes_at .. p.expires_at
          /\ IF p.add THEN ApplyAdd(p.operator) ELSE ApplyRemove(p.operator)
    /\ pending' = {}
    /\ UNCHANGED <<ledgerVars, grants, rotation_config>>

CancelRotation(caller) ==
    /\ MayAct(caller, "EmergencyPause")
    /\ pending # {}
    /\ pending' = {}
    /\ UNCHANGED <<ledgerVars, grants, operators, rotation_config>>
-----------------------------------------------------------------------------
Rotate(caller) ==
    \/ \E a \in Operators : AddOperator(caller, a) \/ RemoveOperator(caller, a)
    \/ \E timing \in Timings : SetRotationConfig(caller, timing)
    \/ \E a \in Operators, add \in BOOLEAN : ProposeRotation(caller, add, a)
    \/ ExecuteRotation(caller)
    \/ CancelRotation(caller)

Next ==
    \/ \E caller \in Address : Rotate(caller)
    \/ AclNext /\ UNCHANGED rotationVars

Spec == Init /\ [][Next]_vars
-----------------------------------------------------------------------------
\* Each variable holds values of its type.
TypeOK ==
    /\ AclTypeOK
    /\ operators \in [Operators -> Operator]
    /\ rotation_config \in RotationConfig
    /\ pending \in SUBSET PendingRotation /\ Cardinality(pending) <= 1

\* Once there was an operator there always is one, through direct calls and rotations
\* proposed when the set was another.
SomeoneOperates ==
    (\E a \in Operators : operators[a] # "absent") => \E a \in Operators : IsOperator(a)

\* A rotation ends whole: either nothing but its removal happens, or exactly its change
\* is made, inside the window computed when it was proposed, whatever is configured
\* meanwhile.  No rotation is replaced by another.
RotationWhole ==
    [][\A p \in pending :
          pending' # pending =>
              /\ pending' = {}
              /\ \/ UNCHANGED operators
                 \/ /\ now \in p.executes_at .. p.expires_at
                    /\ operators' = [operators EXCEPT ![p.operator] =
                                         IF p.add THEN "active" ELSE "removed"]]_vars

\* Nobody gains a permission while the contract is paused, nor by time passing, although
\* grants end by it; the administrator's own permissions are not counted.
NothingGainedQuietly ==
    [][globally_paused \/ now' # now =>
          \A a \in Address, permission \in Permission :
              HasPermission(a, permission)' => HasPermission(a, permission)]_vars
=============================================================================
