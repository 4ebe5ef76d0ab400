---------------------------- MODULE CircuitBreaker ----------------------------
(***************************************************************************)
(* The circuit breaker, soroban/src/circuit_breaker.rs: guardians pause    *)
(* everything, a bridge or an asset, and lift a pause again together.      *)
(*                                                                         *)
(* A call is one action, a panic undoes it.  A pause keeps its number for  *)
(* ever; lifting it removes its record.  Requests are a list searched by   *)
(* the number of the pause.  Approvals of a request are counted, the       *)
(* guardians behind them are not kept: one guardian may give several. The  *)
(* recovery delays only set a deadline that no call reads.                 *)
(*                                                                         *)
(* Left out: reasons, times, events.                                       *)
(***************************************************************************)
EXTENDS Integers, Sequences, FiniteSets, Functions

CONSTANTS
    Address, Bridge, Asset,
    Threshold,          \* guardian_threshold passed to initialize
    MaxWhitelist,       \* max_whitelist_size passed to initialize
    Alert, Triggers,    \* bound: alert types and trigger settings
    MaxPauses,          \* bound: pauses ever triggered
    MaxApprovals        \* bound: approvals of one request

Role == {"Standard", "Emergency", "Admin"}
PauseId == 1 .. MaxPauses
Scope == {<<"Global">>} \cup ({"Bridge"} \X Bridge) \cup ({"Asset"} \X Asset)

VARIABLES
    guardians,          \* role of each guardian, or NoRole
    pause_count,
    pauses,             \* scope of each active pause, or NoPause
    requests,           \* RecoveryRequests in order
    trigger_configs, listed_addresses, listed_assets

breakerVars == <<guardians, pause_count, pauses, requests, trigger_configs,
                 listed_addresses, listed_assets>>

NoRole == "none"
NoPause == <<>>

\* What the theorems suppose of the constants.
BreakerConstants ==
    /\ MaxPauses \in Nat /\ MaxApprovals \in Nat \ {0}
    /\ MaxWhitelist \in Nat

Init ==
    /\ guardians = [a \in Address |-> NoRole]
    /\ pause_count = 0
    /\ pauses = [id \in PauseId |-> NoPause]
    /\ requests = <<>>
    /\ trigger_configs = [t \in Alert |-> {}]
    /\ listed_addresses = {} /\ listed_assets = {}
-----------------------------------------------------------------------------
\* The administrator's calls.
AddGuardian(a, role) ==
    /\ guardians[a] = NoRole
    /\ guardians' = [guardians EXCEPT ![a] = role]
    /\ UNCHANGED <<pause_count, pauses, requests, trigger_configs,
                   listed_addresses, listed_assets>>

RemoveGuardian(a) ==
    /\ guardians[a] # NoRole
    /\ guardians' = [guardians EXCEPT ![a] = NoRole]
    /\ UNCHANGED <<pause_count, pauses, requests, trigger_configs,
                   listed_addresses, listed_assets>>

SetTriggerConfig(t, settings) ==
    /\ trigger_configs' = [trigger_configs EXCEPT ![t] = {settings}]
    /\ UNCHANGED <<guardians, pause_count, pauses, requests,
                   listed_addresses, listed_assets>>

AddToAddressWhitelist(a) ==
    /\ Cardinality(listed_addresses) < MaxWhitelist
    /\ a \notin listed_addresses
    /\ listed_addresses' = listed_addresses \cup {a}
    /\ UNCHANGED <<guardians, pause_count, pauses, requests,
                   trigger_configs, listed_assets>>

AddAssetToWhitelist(asset) ==
    /\ Cardinality(listed_assets) < MaxWhitelist
    /\ asset \notin listed_assets
    /\ listed_assets' = listed_assets \cup {asset}
    /\ UNCHANGED <<guardians, pause_count, pauses, requests,
                   trigger_configs, listed_addresses>>
-----------------------------------------------------------------------------
\* check_guardian_permission.
Permitted(a, role) ==
    \/ guardians[a] = "Admin"
    \/ guardians[a] = "Emergency" /\ role \in {"Emergency", "Standard"}
    \/ guardians[a] = "Standard" /\ role = "Standard"

\* pause_global, pause_bridge and pause_asset.
Pause(a, scope) ==
    /\ pause_count < MaxPauses
    /\ Permitted(a, IF scope = <<"Global">> THEN "Emergency" ELSE "Standard")
    /\ pause_count' = pause_count + 1
    /\ pauses' = [pauses EXCEPT ![pause_count + 1] = scope]
    /\ UNCHANGED <<guardians, requests, trigger_configs,
                   listed_addresses, listed_assets>>

Requested(id) == {k \in DOMAIN requests : requests[k].pause_id = id}

\* Mutant: a second request for the same pause is taken.
RequestRecovery_Twice(a, id) ==
    /\ Permitted(a, "Standard")
    /\ pauses[id] # NoPause
    /\ Len(requests) < MaxPauses
    /\ requests' = Append(requests, [pause_id |-> id, approvals |-> 1, threshold |-> Threshold])
    /\ UNCHANGED <<guardians, pause_count, pauses, trigger_configs, listed_addresses,
                   listed_assets>>

RequestRecovery(a, id) ==
    /\ Permitted(a, "Standard")
    /\ pauses[id] # NoPause
    /\ Requested(id) = {}
    /\ requests' = Append(requests, [pause_id |-> id, approvals |-> 1, threshold |-> Threshold])
    /\ UNCHANGED <<guardians, pause_count, pauses, trigger_configs, listed_addresses,
                   listed_assets>>

\* The same guardian may approve again.
ApproveRecovery(a, id) ==
    /\ Permitted(a, "Standard")
    /\ \E k \in Requested(id) :
          /\ requests[k].approvals < MaxApprovals
          /\ requests' = [requests EXCEPT ![k].approvals = @ + 1]
    /\ UNCHANGED <<guardians, pause_count, pauses, trigger_configs, listed_addresses,
                   listed_assets>>

\* Mutant: the request stays in the list.
ExecuteRecovery_Kept(a, id) ==
    /\ Permitted(a, "Standard")
    /\ \E k \in Requested(id) : requests[k].approvals >= requests[k].threshold
    /\ pauses' = [pauses EXCEPT ![id] = NoPause]
    /\ UNCHANGED <<guardians, pause_count, requests, trigger_configs,
                   listed_addresses, listed_assets>>

\* Mutant: lifted with one approval less.
ExecuteRecovery_Short(a, id) ==
    /\ Permitted(a, "Standard")
    /\ \E k \in Requested(id) :
          /\ requests[k].approvals >= requests[k].threshold - 1
          /\ requests' = [j \in 1 .. Len(requests) - 1 |->
                            IF j < k THEN requests[j] ELSE requests[j + 1]]
    /\ pauses' = [pauses EXCEPT ![id] = NoPause]
    /\ UNCHANGED <<guardians, pause_count, trigger_configs, listed_addresses, listed_assets>>

ExecuteRecovery(a, id) ==
    /\ Permitted(a, "Standard")
    /\ \E k \in Requested(id) :
          /\ requests[k].approvals >= requests[k].threshold
          /\ requests' = [j \in 1 .. Len(requests) - 1 |->
                            IF j < k THEN requests[j] ELSE requests[j + 1]]
    /\ pauses' = [pauses EXCEPT ![id] = NoPause]
    /\ UNCHANGED <<guardians, pause_count, trigger_configs,
                   listed_addresses, listed_assets>>

Next ==
    \/ \E a \in Address :
          \/ \E role \in Role : AddGuardian(a, role)
          \/ RemoveGuardian(a)
          \/ AddToAddressWhitelist(a)
          \/ \E scope \in Scope : Pause(a, scope)
          \/ \E id \in PauseId :
                RequestRecovery(a, id) \/ ApproveRecovery(a, id) \/ ExecuteRecovery(a, id)
    \/ \E asset \in Asset : AddAssetToWhitelist(asset)
    \/ \E t \in Alert, settings \in Triggers : SetTriggerConfig(t, settings)

Spec == Init /\ [][Next]_breakerVars
-----------------------------------------------------------------------------
\* is_paused: by the pauses on record, searched by number.
IsPaused(scope) ==
    \E id \in 1 .. pause_count : pauses[id] = <<"Global">> \/ pauses[id] = scope

\* Each variable holds values of its type.
TypeOK ==
    /\ guardians \in [Address -> Role \cup {NoRole}]
    /\ pause_count \in 0 .. MaxPauses
    /\ pauses \in [PauseId -> Scope \cup {NoPause}]
    /\ requests \in Seq([pause_id : PauseId, approvals : 1 .. MaxApprovals,
                         threshold : {Threshold}])
    /\ Cardinality(listed_addresses) <= MaxWhitelist
    /\ Cardinality(listed_assets) <= MaxWhitelist

\* The requests are of pauses still in force, one for each at most, however pauses,
\* requests and recoveries of several guardians interleave: no request outlives its
\* pause to lift another.
RequestsLive ==
    /\ \A k \in DOMAIN requests : pauses[requests[k].pause_id] # NoPause
    /\ \A j, k \in DOMAIN requests : requests[j].pause_id = requests[k].pause_id => j = k

\* A scope that was paused and no longer is was covered by a pause whose request, for that
\* pause and in force, had as many approvals counted as the threshold.
LiftedByApproval ==
    [][\A scope \in Scope :
          IsPaused(scope) /\ ~IsPaused(scope)' =>
              \E k \in DOMAIN requests :
                  /\ pauses[requests[k].pause_id] \in {<<"Global">>, scope}
                  /\ requests[k].approvals >= Threshold]_breakerVars
=============================================================================
