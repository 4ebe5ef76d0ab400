------------------------------- MODULE Retention -------------------------------
(***************************************************************************)
(* Historical records of BridgeWatchContract (soroban/src/lib.rs): supply  *)
(* mismatches of a bridge, liquidity depth of a pair, metadata of the      *)
(* checkpoints; how long they are kept, and the clean-ups that drop or     *)
(* archive them by hand or at the end of a call that records.              *)
(*                                                                         *)
(* The three kinds are cleaned by the same loop over the records of each   *)
(* key; a key is a bridge, a pair, or the one list of checkpoints.  A      *)
(* record keeps what the clean-ups read.  Left out: the measured values,   *)
(* the critical-mismatch filter, statistics, events.                       *)
(***************************************************************************)
EXTENDS MonitorBase, SequencesExt

CONSTANTS
    Bridges, Pairs,     \* bridge identifiers, and the supported pairs
    MismatchAssets,     \* asset codes of the supply mismatches
    RetentionPolicies,  \* bound: passed to set_retention_policy
    RetentionOverrides, \* bound: passed to set_asset_retention_override
    Budgets,            \* bound: max deletions of a clean-up call
    DefaultPolicy,      \* default_retention_policy, in ticks
    ExpirationPolicies, \* bound: passed to set_expiration_policy
    DefaultExpiration,  \* ExpirationPolicy of load_expiration_policy, in ticks
    MaxRecords          \* bound: records made for one key

Kinds == <<"SupplyMismatches", "LiquidityHistory", "Checkpoints">>
Kind == Range(Kinds)
CheckpointList == "checkpoint list"
Key == Bridges \cup Pairs \cup {CheckpointList}
KindOf(key) ==
    IF key \in Bridges THEN "SupplyMismatches"
    ELSE IF key \in Pairs THEN "LiquidityHistory" ELSE "Checkpoints"

VARIABLES
    records,            \* stored records of each key, oldest first
    archived,           \* records archived of each key
    keys,               \* keys of each kind, in the order they appeared
    liq_depth,          \* latest depth record of each pair, or NoRecord
    policy,             \* RetentionPolicy of each kind
    retention_override, \* override of an asset code or pair and kind; 0 for none
    last_cleanup,       \* LastCleanup of each kind
    expiration,         \* ExpirationPolicy in force
    written             \* history: records ever made of each key

retentionVars == <<records, archived, keys, liq_depth, policy, retention_override,
                   last_cleanup, expiration, written>>

\* The times to live of the records of each kind; that of deviations is not read.
ExpirationPolicy ==
    [asset_ttl : Nat, price_ttl : Nat, mismatch_ttl : Nat, liquidity_ttl : Nat,
     preserve_latest_history : BOOLEAN]

NoRecord == [id |-> 0]
Record(id, asset, ttl) ==
    [id |-> id, asset |-> asset, timestamp |-> now, expires_at |-> now + ttl]

RetentionInit ==
    /\ records = [key \in Key |-> <<>>]
    /\ archived = [key \in Key |-> <<>>]
    /\ keys = [k \in Kind |-> IF k = "Checkpoints" THEN <<CheckpointList>> ELSE <<>>]
    /\ liq_depth = [pair \in Pairs |-> NoRecord]
    /\ policy = [k \in Kind |-> DefaultPolicy]
    /\ retention_override = [o \in (MismatchAssets \cup Pairs) \X Kind |-> 0]
    /\ last_cleanup = [k \in Kind |-> 0]
    /\ expiration = DefaultExpiration
    /\ written = [key \in Key |-> 0]

RetentionTypeOK ==
    /\ \A key \in Key :
          \A r \in Range(records[key]) \cup Range(archived[key]) :
              r.id \in 1 .. written[key] /\ r.timestamp \in 1 .. MaxNow
    /\ \A k \in Kind : Range(keys[k]) \subseteq {key \in Key : KindOf(key) = k}
    /\ policy \in [Kind -> RetentionPolicies \cup {DefaultPolicy}]
    /\ last_cleanup \in [Kind -> 0 .. MaxNow]
-----------------------------------------------------------------------------
\* is_past, is_expired.
Past(r) == now > r.expires_at
Expired(r, retention) == now - r.timestamp > retention

\* resolve_retention_secs; the checkpoints have no override.
RetentionSecs(k, r, default) ==
    IF k # "Checkpoints" /\ retention_override[r.asset, k] # 0
    THEN retention_override[r.asset, k] ELSE default

\* The loop over the records of a list: those at the places of S, in order.
Chosen(seq, S) ==
    LET chosen[n \in 0 .. Len(seq)] ==
            IF n = 0 THEN <<>>
            ELSE IF n \in S THEN Append(chosen[n - 1], seq[n]) ELSE chosen[n - 1]
    IN  chosen[Len(seq)]

\* Mutant: the latest record is not spared.
Removable_Latest(k, seq, budget) ==
    LET due == {i \in DOMAIN seq : Expired(seq[i], RetentionSecs(k, seq[i], policy[k].retention_secs))}
    IN  {i \in due : Cardinality({j \in due : j <= i}) <= budget}

\* The records a clean-up takes from one list: the oldest that are due, as many
\* as the budget allows, and never the latest.
Removable(k, seq, budget) ==
    LET due == {i \in 1 .. Len(seq) - 1 :
                    Expired(seq[i], RetentionSecs(k, seq[i], policy[k].retention_secs))}
    IN  {i \in due : Cardinality({j \in due : j <= i}) <= budget}

\* A shelf is what a clean-up works on: the records, the archive, the times of
\* the last clean-ups, and how many records it deleted.
\* Mutant: what is archived stays in the list.
CleanedKey_Copied(shelf, k, key, budget) ==
    LET gone == Removable(k, shelf.records[key], budget - shelf.deleted)
    IN  [shelf EXCEPT
            !.archived[key] = IF policy[k].archive_before_delete
                              THEN shelf.archived[key] \o Chosen(shelf.records[key], gone)
                              ELSE shelf.archived[key],
            !.deleted = shelf.deleted + Cardinality(gone)]

\* Mutant: nothing is archived.
CleanedKey_Unarchived(shelf, k, key, budget) ==
    LET gone == Removable(k, shelf.records[key], budget - shelf.deleted)
        stay == DOMAIN shelf.records[key] \ gone
    IN  [shelf EXCEPT !.records[key] = Chosen(shelf.records[key], stay),
                      !.deleted = shelf.deleted + Cardinality(gone)]

CleanedKey(shelf, k, key, budget) ==
    LET gone == Removable(k, shelf.records[key], budget - shelf.deleted)
        stay == DOMAIN shelf.records[key] \ gone
    IN  [shelf EXCEPT
            !.records[key] = Chosen(shelf.records[key], stay),
            !.archived[key] = IF policy[k].archive_before_delete
                              THEN shelf.archived[key] \o Chosen(shelf.records[key], gone)
                              ELSE shelf.archived[key],
            !.deleted = shelf.deleted + Cardinality(gone)]

\* cleanup_data_type_internal: all keys of a kind share the budget.
CleanedKind(shelf, k, budget) ==
    FoldLeft(LAMBDA s, key : CleanedKey(s, k, key, budget), [shelf EXCEPT !.deleted = 0],
             shelf.keys[k])

Smaller(a, b) == IF a < b THEN a ELSE b

\* cleanup_old_data: the kinds in their order share the total.
CleanedOld(shelf, total) ==
    LET visit(s, k) ==
            IF s.left = 0 \/ ~policy[k].enabled THEN s
            ELSE LET done == CleanedKind(s.shelf, k, Smaller(policy[k].max_deletions_per_run, s.left))
                 IN  [shelf |-> [done EXCEPT !.last[k] = now], left |-> s.left - done.deleted]
    IN  FoldLeft(visit, [shelf |-> shelf, left |-> total], Kinds).shelf

\* maybe_trigger_auto_cleanup: the kinds whose interval has passed.
AutoCleaned(shelf) ==
    LET visit(s, k) ==
            IF \/ ~policy[k].enabled
               \/ s.last[k] # 0 /\ now < s.last[k] + policy[k].trigger_interval_secs
            THEN s
            ELSE [CleanedKind(s, k, policy[k].max_deletions_per_run) EXCEPT !.last[k] = now]
    IN  FoldLeft(visit, shelf, Kinds)

Shelf(recs, ks) ==
    [records |-> recs, archived |-> archived, keys |-> ks, last |-> last_cleanup, deleted |-> 0]

Shelved(shelf) ==
    /\ records' = shelf.records
    /\ archived' = shelf.archived
    /\ keys' = shelf.keys
    /\ last_cleanup' = shelf.last
-----------------------------------------------------------------------------
\* resolve_expiration, for the two kinds that are recorded.
Ttl(k) ==
    IF k = "SupplyMismatches" THEN expiration.mismatch_ttl ELSE expiration.liquidity_ttl

\* What both recorders do with a new record: append it, list a new key, and run
\* the clean-ups that are due.
Recorded(key, asset) ==
    LET k  == KindOf(key)
        r  == Record(written[key] + 1, asset, Ttl(k))
        ks == IF key \in Range(keys[k]) THEN keys ELSE [keys EXCEPT ![k] = Append(@, key)]
    IN  /\ written[key] < MaxRecords
        /\ written' = [written EXCEPT ![key] = @ + 1]
        /\ Shelved(AutoCleaned(Shelf([records EXCEPT ![key] = Append(@, r)], ks)))

RecordSupplyMismatch(bridge, asset) ==
    /\ ~blocked
    /\ RateLimited(ADMIN)
    /\ Recorded(bridge, asset)
    /\ UNCHANGED <<now, blocked, rate_limit, liq_depth, policy, retention_override, expiration>>

RecordLiquidityDepth(pair) ==
    /\ ~blocked
    /\ RateLimited(ADMIN)
    /\ liq_depth' = [liq_depth EXCEPT ![pair] =
                        Record(written[pair] + 1, pair, Ttl("LiquidityHistory"))]
    /\ Recorded(pair, pair)
    /\ UNCHANGED <<now, blocked, rate_limit, policy, retention_override, expiration>>

SetRetentionPolicy(caller, k, new) ==
    /\ ~blocked /\ Governs(caller)
    /\ new.retention_secs > 0 /\ new.trigger_interval_secs > 0 /\ new.max_deletions_per_run > 0
    /\ policy' = [policy EXCEPT ![k] = new]
    /\ UNCHANGED <<baseVars, records, archived, keys, liq_depth, retention_override,
                   last_cleanup, expiration, written>>

\* secs = 0 stands for None, which removes the override.
SetAssetRetentionOverride(caller, asset, k, secs) ==
    /\ ~blocked /\ Governs(caller)
    /\ retention_override' = [retention_override EXCEPT ![<<asset, k>>] = secs]
    /\ UNCHANGED <<baseVars, records, archived, keys, liq_depth, policy,
                   last_cleanup, expiration, written>>

CleanupOldData(caller, total) ==
    /\ ~blocked /\ Governs(caller)
    /\ total > 0
    /\ Shelved(CleanedOld(Shelf(records, keys), total))
    /\ UNCHANGED <<baseVars, liq_depth, policy, retention_override, expiration, written>>

CleanupDataType(caller, k, max) ==
    /\ ~blocked /\ Governs(caller)
    /\ max > 0
    /\ policy[k].enabled
    /\ Shelved([CleanedKind(Shelf(records, keys), k,
                            Smaller(policy[k].max_deletions_per_run, max)) EXCEPT !.last[k] = now])
    /\ UNCHANGED <<baseVars, liq_depth, policy, retention_override, expiration, written>>

SetExpirationPolicy(caller, new) ==
    /\ Governs(caller)
    /\ expiration' = new
    /\ UNCHANGED <<baseVars, records, archived, keys, liq_depth, policy,
                   retention_override, last_cleanup, written>>

\* Mutant: the policy is not asked.
Trimmed_Emptied(history) == Chosen(history, {i \in DOMAIN history : ~Past(history[i])})

\* The expiry sweep of one history: when nothing is left of it, the last entry
\* stays if the policy preserves it.
Trimmed(history) ==
    LET fresh == Chosen(history, {i \in DOMAIN history : ~Past(history[i])})
    IN  IF fresh = <<>> /\ history # <<>> /\ expiration.preserve_latest_history
        THEN <<Last(history)>> ELSE fresh
-----------------------------------------------------------------------------
(* No record is lost twice or kept twice: its id is in the list or in the   *)
(* archive of its key, at most once in all, whatever clean-ups ran.         *)
RecordsOnce ==
    \A key \in Key :
        LET all == archived[key] \o records[key]
        IN  \A i, j \in DOMAIN all : i # j => all[i].id # all[j].id

(* What leaves a list was due.  The expiry sweep takes what is past its     *)
(* time to live, archives nothing, and leaves an entry of every history if  *)
(* the policy preserves one.  A clean-up takes what is older than its       *)
(* retention, archives it where the policy of its kind says so, and leaves  *)
(* a later record: it "never deletes currently active/latest records"       *)
(* (cleanup_old_data).  Checkpoints are also dropped when there are too     *)
(* many: SnapshotsListed.                                                   *)
DeletedDue ==
    \A key \in Key \ {CheckpointList} :
        \A r \in Range(records[key]) \ Range(records'[key]) :
            \/ /\ Past(r) /\ UNCHANGED <<archived, last_cleanup>>
               /\ expiration.preserve_latest_history => records'[key] # <<>>
            \/ /\ records'[key] # <<>> /\ Last(records'[key]).id > r.id
               /\ Expired(r, RetentionSecs(KindOf(key), r, policy[KindOf(key)].retention_secs))
               /\ policy[KindOf(key)].archive_before_delete => r \in Range(archived'[key])
===============================================================================
