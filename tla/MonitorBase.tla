------------------------------ MODULE MonitorBase ------------------------------
(***************************************************************************)
(* What the monitoring entry points of BridgeWatchContract                 *)
(* (soroban/src/lib.rs) share: the ledger clock, who may call, the pause   *)
(* of the contract, and the limit on submissions of each caller.           *)
(*                                                                         *)
(* Roles and permissions are fixed here: AccessControl and BridgeAdmin     *)
(* model how they are granted.  A pending transfer of the administrator     *)
(* blocks the calls that the pause blocks for administrators; it is part of *)
(* blocked.                                                                 *)
(***************************************************************************)
EXTENDS Integers, Sequences, FiniteSets

CONSTANTS
    Address,
    ADMIN,              \* the administrator
    Supers,             \* holders of the role SuperAdmin
    RoleHolders,        \* holders of a role that manages assets or submits
    ConfigManagers,     \* holders of the permission ManageConfig of the access control
    Limits,             \* bound: settings passed to set_rate_limit_config
    CanBlock,           \* bound: whether the contract is ever paused
    MaxNow              \* bound: the ledger timestamp

VARIABLES
    now,                \* ledger timestamp
    blocked,            \* paused, or an administrator transfer pending
    rate_limit,         \* RateLimitConfig, or NoLimit
    usage               \* RateLimitUsage of each caller, or NoUsage

baseVars == <<now, blocked, rate_limit, usage>>

NoLimit == [window_secs |-> 0, max_calls |-> 0]
NoUsage == [window_start |-> -1, count |-> 0]

\* check_permission, for the roles of asset managers and submitters.
Permitted(caller) == caller \in {ADMIN} \cup Supers \cup RoleHolders
\* check_permission for SuperAdmin; the calls that name admin or SuperAdmin.
Governs(caller) == caller \in {ADMIN} \cup Supers
\* acl::require_permission for ManageConfig, which the role SuperAdmin does not give.
Configures(caller) == caller \in {ADMIN} \cup ConfigManagers

BaseInit ==
    /\ now = 1
    /\ blocked = FALSE
    /\ rate_limit = NoLimit
    /\ usage = [a \in Address |-> NoUsage]

BaseTypeOK ==
    /\ now \in 1 .. MaxNow
    /\ blocked \in BOOLEAN
    /\ rate_limit \in Limits \cup {NoLimit}
    /\ \A a \in Address : usage[a].window_start \in -1 .. MaxNow /\ usage[a].count \in Nat

\* The window the next submission of the caller falls in: a new one after
\* window_secs, whatever the window had left.
Window(caller) ==
    LET used == usage[caller]
    IN  IF used = NoUsage \/ now >= used.window_start + rate_limit.window_secs
        THEN [window_start |-> now, count |-> 0]
        ELSE used

\* enforce_rate_limit: counts the call, or refuses it.
RateLimited(caller) ==
    IF rate_limit = NoLimit
    THEN UNCHANGED usage
    ELSE /\ Window(caller).count < rate_limit.max_calls
         /\ usage' = [usage EXCEPT ![caller] =
                        [Window(caller) EXCEPT !.count = @ + 1]]

\* The windows in use stay: the next call is counted against the new limit.
SetRateLimitConfig(caller, limit) ==
    /\ ~blocked /\ Configures(caller)
    /\ limit.window_secs > 0 /\ limit.max_calls > 0
    /\ rate_limit' = limit
    /\ UNCHANGED <<now, blocked, usage>>

Tick ==
    /\ now < MaxNow
    /\ now' = now + 1
    /\ UNCHANGED <<blocked, rate_limit, usage>>

\* pause_contract, unpause_contract and the transfer calls of BridgeAdmin.
Block ==
    /\ CanBlock
    /\ blocked' = ~blocked
    /\ UNCHANGED <<now, rate_limit, usage>>
===============================================================================
