----------------------------- MODULE AssetRegistry -----------------------------
(***************************************************************************)
(* The asset registry, soroban/src/asset_registry.rs: what is known of     *)
(* each monitored asset, its lifecycle, the indexes it is found by and the *)
(* versions of its record.                                                 *)
(*                                                                         *)
(* A call is one action, an Err undoes it.  Every call but the reads is    *)
(* the administrator's, and the administrator never changes.  The texts of *)
(* a record are one member of Text.  Lists the code searches are sequences *)
(* in the order of the calls.                                              *)
(*                                                                         *)
(* Left out: times, reasons, the fields of links and compliance records    *)
(* besides their names, events.                                            *)
(***************************************************************************)
EXTENDS Integers, Sequences, FiniteSets, SequencesExt

CONSTANTS
    Asset, Text,
    Category,           \* bound: categories used
    Rating,             \* bound: ratings (risk_rating and risk_score_bps) used
    Compliance,         \* bound: compliance statuses used besides Pending
    Link,               \* bound: names of chains, feeds, bridges and pools
    Kind,               \* the association lists kept for each asset
    MaxLinks,           \* MAX_CHAINS, MAX_ORACLE_FEEDS, MAX_BRIDGES, MAX_POOLS by kind
    MaxVersions,        \* MAX_VERSIONS retained
    LastVersion         \* bound: the version a record may reach

Status == {"PendingReview", "Active", "Paused", "Deprecated", "Deactivated"}
Pending == "Pending"

VARIABLES
    metadata,           \* AssetMeta: the record of each asset, or NoAsset
    versions,           \* Versions: the records kept of each asset, oldest first
    asset_list, category_index, status_index,
    links,              \* ChainLinks, OracleFeeds, BridgeAssocs and PoolAssocs
    compliance_records, \* Compliance: number of records of each asset
    whitelist, frozen

registryVars == <<metadata, versions, asset_list, category_index, status_index, links,
                  compliance_records, whitelist, frozen>>

NoAsset == [version |-> 0]
AssetMetadata ==
    [version : 1 .. LastVersion, text : Text, category : Category, status : Status,
     rating : Rating \cup {"Default"}, compliance : Compliance \cup {Pending}]

Registered(a) == metadata[a] # NoAsset

\* What the theorems suppose of the constants.
RegistryConstants ==
    /\ MaxVersions \in Nat \ {0} /\ LastVersion \in Nat \ {0}
    /\ MaxLinks \in [Kind -> Nat]

Init ==
    /\ metadata = [a \in Asset |-> NoAsset]
    /\ versions = [a \in Asset |-> <<>>]
    /\ asset_list = <<>>
    /\ category_index = [c \in Category |-> <<>>]
    /\ status_index = [s \in Status |-> <<>>]
    /\ links = [k \in Kind |-> [a \in Asset |-> <<>>]]
    /\ compliance_records = [a \in Asset |-> 0]
    /\ whitelist = <<>>
    /\ frozen = {}
-----------------------------------------------------------------------------
\* add_to_index: an asset is listed once.
AddToIndex(index, key, a) ==
    IF a \in ToSet(index[key]) THEN index ELSE [index EXCEPT ![key] = Append(@, a)]

\* The loop of remove_from_index and of whitelist_remove: the entries besides a, in order.
Without(list, a) ==
    LET updated[n \in 0 .. Len(list)] ==
            IF n = 0 THEN <<>>
            ELSE IF list[n] = a THEN updated[n - 1] ELSE Append(updated[n - 1], list[n])
    IN  updated[Len(list)]

\* remove_from_index.
RemoveFromIndex(index, key, a) == [index EXCEPT ![key] = Without(@, a)]

\* Moves an asset from one list of an index to another.
Moved(index, a, from, to) == AddToIndex(RemoveFromIndex(index, from, a), to, a)

\* Mutant: the oldest version goes only once one more than the maximum is kept.
Kept_Late(kept, record) ==
    Append(IF Len(kept) > MaxVersions THEN Tail(kept) ELSE kept, record)

\* The versions kept once a record is added: the oldest gives way.
Kept(kept, record) == Append(IF Len(kept) >= MaxVersions THEN Tail(kept) ELSE kept, record)

\* save_with_version.
SaveWithVersion(a, record) ==
    /\ record.version <= LastVersion
    /\ metadata' = [metadata EXCEPT ![a] = record]
    /\ versions' = [versions EXCEPT ![a] = Kept(@, record)]

\* The record of a with its version counted up.
Counted(a) == [metadata[a] EXCEPT !.version = @ + 1]
-----------------------------------------------------------------------------
\* An empty whitelist admits every asset.
RegisterAsset(a, text, category) ==
    LET record == [version |-> 1, text |-> text, category |-> category,
                   status |-> "PendingReview", rating |-> "Default", compliance |-> Pending]
    IN  /\ whitelist = <<>> \/ a \in ToSet(whitelist)
        /\ ~Registered(a)
        /\ metadata' = [metadata EXCEPT ![a] = record]
        /\ versions' = [versions EXCEPT ![a] = <<record>>]
        /\ links' = [k \in Kind |-> [links[k] EXCEPT ![a] = <<>>]]
        /\ compliance_records' = [compliance_records EXCEPT ![a] = 0]
        /\ asset_list' = Append(asset_list, a)
        /\ category_index' = AddToIndex(category_index, category, a)
        /\ status_index' = AddToIndex(status_index, "PendingReview", a)
        /\ UNCHANGED <<whitelist, frozen>>

UpdateMetadata(a, text) ==
    /\ Registered(a)
    /\ a \notin frozen
    /\ metadata[a].status # "Deprecated"
    /\ SaveWithVersion(a, [Counted(a) EXCEPT !.text = text])
    /\ UNCHANGED <<asset_list, category_index, status_index, links, compliance_records,
                   whitelist, frozen>>

\* Neither a freeze nor a deprecation stops this call and the next three.
UpdateCategory(a, category) ==
    /\ Registered(a)
    /\ category_index' = Moved(category_index, a, metadata[a].category, category)
    /\ SaveWithVersion(a, [Counted(a) EXCEPT !.category = category])
    /\ UNCHANGED <<asset_list, status_index, links, compliance_records, whitelist, frozen>>

UpdateRisk(a, rating) ==
    /\ Registered(a)
    /\ SaveWithVersion(a, [Counted(a) EXCEPT !.rating = rating])
    /\ UNCHANGED <<asset_list, category_index, status_index, links, compliance_records,
                   whitelist, frozen>>

UpdateCompliance(a, compliance) ==
    /\ Registered(a)
    /\ compliance_records' = [compliance_records EXCEPT ![a] = @ + 1]
    /\ SaveWithVersion(a, [Counted(a) EXCEPT !.compliance = compliance])
    /\ UNCHANGED <<asset_list, category_index, status_index, links, whitelist, frozen>>
-----------------------------------------------------------------------------
\* The status of a becomes s, in its record and in the index.
Becomes(a, s) ==
    /\ status_index' = Moved(status_index, a, metadata[a].status, s)
    /\ SaveWithVersion(a, [Counted(a) EXCEPT !.status = s])
    /\ UNCHANGED <<asset_list, category_index, links, compliance_records, whitelist, frozen>>

Transition ==
    {<<"PendingReview", "Active">>} \cup
    ({"Active"} \X {"Paused", "Deprecated", "Deactivated"}) \cup
    ({"Paused"} \X {"Active", "Deprecated", "Deactivated"})

UpdateStatus(a, s) ==
    /\ Registered(a)
    /\ <<metadata[a].status, s>> \in Transition
    /\ Becomes(a, s)

\* Mutant: every asset but a deactivated one may be deactivated.
DeactivateAsset_Any(a) ==
    /\ Registered(a)
    /\ metadata[a].status # "Deactivated"
    /\ Becomes(a, "Deactivated")

DeactivateAsset(a) ==
    /\ Registered(a)
    /\ metadata[a].status = "Active"
    /\ Becomes(a, "Deactivated")

\* Mutant: the asset stays in the list of deactivated ones.
RestoreAsset_Listed(a) ==
    /\ Registered(a)
    /\ metadata[a].status = "Deactivated"
    /\ status_index' = AddToIndex(status_index, "Active", a)
    /\ SaveWithVersion(a, [Counted(a) EXCEPT !.status = "Active"])
    /\ UNCHANGED <<asset_list, category_index, links, compliance_records, whitelist, frozen>>

\* A deactivated asset comes back active, one that was deactivated while paused too.
RestoreAsset(a) ==
    /\ Registered(a)
    /\ metadata[a].status = "Deactivated"
    /\ Becomes(a, "Active")
-----------------------------------------------------------------------------
\* link_chain, link_bridge_contract, register_oracle_feed and add_liquidity_pool.
AddLink(k, a, name) ==
    /\ Registered(a)
    /\ Len(links[k][a]) < MaxLinks[k]
    /\ name \notin ToSet(links[k][a])
    /\ links' = [links EXCEPT ![k][a] = Append(@, name)]
    /\ UNCHANGED <<metadata, versions, asset_list, category_index, status_index,
                   compliance_records, whitelist, frozen>>

WhitelistAdd(a) ==
    /\ a \notin ToSet(whitelist)
    /\ whitelist' = Append(whitelist, a)
    /\ UNCHANGED <<metadata, versions, asset_list, category_index, status_index, links,
                   compliance_records, frozen>>

\* Removing the last entry opens the registry to every asset again.
WhitelistRemove(a) ==
    /\ a \in ToSet(whitelist)
    /\ whitelist' = Without(whitelist, a)
    /\ UNCHANGED <<metadata, versions, asset_list, category_index, status_index, links,
                   compliance_records, frozen>>

\* freeze_asset and unfreeze_asset.
SetFrozen(a, on) ==
    /\ Registered(a)
    /\ frozen' = IF on THEN frozen \cup {a} ELSE frozen \ {a}
    /\ UNCHANGED <<metadata, versions, asset_list, category_index, status_index, links,
                   compliance_records, whitelist>>

Next ==
    \E a \in Asset :
        \/ \E text \in Text :
              (\E category \in Category : RegisterAsset(a, text, category)) \/ UpdateMetadata(a, text)
        \/ \E category \in Category : UpdateCategory(a, category)
        \/ \E rating \in Rating : UpdateRisk(a, rating)
        \/ \E compliance \in Compliance : UpdateCompliance(a, compliance)
        \/ \E s \in Status : UpdateStatus(a, s)
        \/ DeactivateAsset(a) \/ RestoreAsset(a)
        \/ \E k \in Kind, name \in Link : AddLink(k, a, name)
        \/ WhitelistAdd(a) \/ WhitelistRemove(a)
        \/ \E on \in BOOLEAN : SetFrozen(a, on)

Spec == Init /\ [][Next]_registryVars
-----------------------------------------------------------------------------
\* Each variable holds values of its type.
TypeOK ==
    /\ metadata \in [Asset -> AssetMetadata \cup {NoAsset}]
    /\ \A a \in Asset : ToSet(versions[a]) \subseteq AssetMetadata
    /\ \A k \in Kind, a \in Asset : Len(links[k][a]) <= MaxLinks[k]
    /\ frozen \subseteq Asset

\* What the lists say and what the records say is the same after any sequence of calls:
\* get_all_assets, get_assets_by_category and get_assets_by_status return each asset that
\* qualifies once, and no other.
IndexesTrue ==
    /\ ToSet(asset_list) = {a \in Asset : Registered(a)} /\ IsInjective(asset_list)
    /\ \A c \in Category :
          /\ IsInjective(category_index[c])
          /\ ToSet(category_index[c]) =
                {a \in Asset : Registered(a) /\ metadata[a].category = c}
    /\ \A s \in Status :
          /\ IsInjective(status_index[s])
          /\ ToSet(status_index[s]) = {a \in Asset : Registered(a) /\ metadata[a].status = s}

\* The versions kept are the latest ones, without a gap, no more than MAX_VERSIONS, and
\* the last is the record itself: get_metadata_at_version finds each version not yet too
\* old, whichever calls wrote the record.
HistoryTrue ==
    \A a \in Asset : Registered(a) =>
        LET n == Len(versions[a]) IN
        /\ n = IF metadata[a].version < MaxVersions THEN metadata[a].version ELSE MaxVersions
        /\ versions[a][n] = metadata[a]
        /\ \A k \in 1 .. n : versions[a][k].version = metadata[a].version - (n - k)

\* A deprecated asset never comes back, by no detour through pausing, deactivation and
\* restoration.
DeprecatedFinal ==
    \A a \in Asset :
        Registered(a) /\ metadata[a].status = "Deprecated" =>
            metadata'[a].status = "Deprecated"
=============================================================================
