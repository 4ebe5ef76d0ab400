------------------------------ MODULE AssetMonitor ------------------------------
(***************************************************************************)
(* Assets, submissions and checkpoints of BridgeWatchContract              *)
(* (soroban/src/lib.rs, source_trust.rs): an asset is registered, paused,  *)
(* locked, deregistered; submitters write its health and price, alone, in  *)
(* batches or signed; records expire and are swept; checkpoints are saved  *)
(* by hand, at the end of the calls that write, or by a restore, and a     *)
(* restore writes the state of a checkpoint back.                          *)
(*                                                                         *)
(* A call is one action; a panic undoes all its writes.  Left out: the     *)
(* replay log and events, names and reasons, deviation alerts, the hash of *)
(* a snapshot (it is what the snapshot holds), the per-asset time to live  *)
(* (set_asset_expiration_ttl stores it and nothing reads it).              *)
(***************************************************************************)
EXTENDS Retention, Signers

CONSTANTS
    Assets,             \* asset codes that are registered
    Scores,             \* bound: readings and prices submitted
    Components,         \* bound: component scores, <<liquidity, stability, uptime>>
    HealthWeights,      \* bound: passed to set_health_weights
    RiskConfigs,        \* bound: passed to set_risk_score_config
    Checkpointing,      \* bound: passed to set_checkpoint_config
    DefaultCheckpointing,   \* default_checkpoint_config, in ticks
    Extensions,         \* bound: passed to extend_expiration
    MaxHistory,         \* bound: length of a price history
    MaxLocks,           \* bound: length of a lock history
    Sources,            \* bound: addresses registered as trusted sources
    MaxBatch            \* records a batch may have, 20

VARIABLES
    monitored,          \* MONITORED_ASSETS, in the order of registration
    health, price, result,  \* latest records of each asset, or Nothing
    price_history,
    lock,               \* "none", "locked" or "unlocked": AssetLockState
    lock_history,       \* TRUE for a lock, FALSE for an unlock
    source,             \* TrustedSource: "none", "active" or "revoked"
    weights, risk,      \* HEALTH_WEIGHTS, RISK_SCORE_CONFIG
    checkpointing,      \* CheckpointConfig: [interval_secs, max_checkpoints]
    last_checkpoint,    \* LAST_CHECKPOINT_AT
    snapshots           \* CheckpointSnapshot of each id, or Nothing

assetVars == <<monitored, health, price, result, price_history, lock, lock_history, source,
               weights, risk>>
checkpointVars == <<checkpointing, last_checkpoint, snapshots>>
vars == <<baseVars, retentionVars, signerVars, assetVars, checkpointVars>>

\* What the theorems suppose of the constants.
MonitorConstants ==
    /\ Thresholds \subseteq Nat /\ Budgets \subseteq Nat
    /\ MaxNonce \in Nat /\ MaxRecords \in Nat /\ MaxNow \in Nat \ {0}
    /\ ExpirationPolicies \cup {DefaultExpiration} \subseteq ExpirationPolicy
    /\ \A c \in Checkpointing : c.max_checkpoints \in Nat
    /\ DefaultCheckpointing.max_checkpoints \in Nat \ {0}
    /\ CheckpointList \notin Bridges \cup Pairs

Nothing == [expires_at |-> -1]
CheckpointId == 1 .. MaxRecords

AssetHealth(score, status) ==
    [score |-> score, paused |-> status.paused, active |-> status.active,
     timestamp |-> now, expires_at |-> now + expiration.asset_ttl]
PriceRecord(amount) ==
    [price |-> amount, timestamp |-> now, expires_at |-> now + expiration.price_ttl]
Fresh == [paused |-> FALSE, active |-> TRUE]

Init ==
    /\ BaseInit /\ RetentionInit /\ SignersInit
    /\ monitored = <<>>
    /\ health = [a \in Assets |-> Nothing]
    /\ price = [a \in Assets |-> Nothing]
    /\ result = [a \in Assets |-> Nothing]
    /\ price_history = [a \in Assets |-> <<>>]
    /\ lock = [a \in Assets |-> "none"]
    /\ lock_history = [a \in Assets |-> <<>>]
    /\ source = [a \in Address |-> "none"]
    /\ weights = [liquidity |-> 30, stability |-> 40, uptime |-> 30]
    /\ risk = 0
    /\ checkpointing = DefaultCheckpointing
    /\ last_checkpoint = 0
    /\ snapshots = [id \in CheckpointId |-> Nothing]
-----------------------------------------------------------------------------
(* Checkpoints.                                                             *)

Ids(list) == {r.id : r \in Range(list)}

\* prune_checkpoints: the oldest go until the list fits.
Pruned(list, max) ==
    IF Len(list) > max THEN SubSeq(list, Len(list) - max + 1, Len(list)) ELSE list

\* What the list of checkpoints lost is removed from storage.
Dropped(snaps, before, after) ==
    [id \in CheckpointId |-> IF id \in Ids(before) \ Ids(after) THEN Nothing ELSE snaps[id]]

\* persist_checkpoint, on the state that the call leaves: every monitored asset
\* must have a health record; then the list is pruned and the clean-ups due run.
Persisted(restored_from) ==
    LET id       == written[CheckpointList] + 1
        snapshot == [monitored |-> monitored', health |-> health', price |-> price',
                     result |-> result', weights |-> weights', risk |-> risk',
                     restored_from |-> restored_from, expires_at |-> 0]
        appended == Append(records[CheckpointList], Record(id, CheckpointList, 0))
        shelf    == AutoCleaned(Shelf([records EXCEPT ![CheckpointList] =
                                    Pruned(appended, checkpointing.max_checkpoints)], keys))
    IN  /\ \A a \in Range(monitored') : health'[a] # Nothing
        /\ written[CheckpointList] < MaxRecords
        /\ written' = [written EXCEPT ![CheckpointList] = id]
        /\ last_checkpoint' = now
        /\ Shelved(shelf)
        /\ snapshots' = Dropped([snapshots EXCEPT ![id] = snapshot], appended,
                                shelf.records[CheckpointList])
        /\ UNCHANGED <<liq_depth, policy, retention_override, expiration, checkpointing>>

\* maybe_create_auto_checkpoint, at the end of the calls that write assets.
AutoCheckpoint ==
    IF last_checkpoint # 0 /\ now < last_checkpoint + checkpointing.interval_secs
    THEN UNCHANGED <<retentionVars, checkpointVars>>
    ELSE Persisted(0)

\* Mutant: the list is not pruned to the new maximum in storage.
SetCheckpointConfig_Listed(caller, config) ==
    /\ ~blocked /\ Governs(caller)
    /\ config.max_checkpoints > 0
    /\ checkpointing' = config
    /\ records' = [records EXCEPT ![CheckpointList] = Pruned(@, config.max_checkpoints)]
    /\ UNCHANGED <<baseVars, signerVars, assetVars, last_checkpoint, snapshots, archived, keys,
                   liq_depth, policy, retention_override, last_cleanup, expiration, written>>

SetCheckpointConfig(caller, config) ==
    /\ ~blocked /\ Governs(caller)
    /\ config.max_checkpoints > 0
    /\ checkpointing' = config
    /\ records' = [records EXCEPT ![CheckpointList] = Pruned(@, config.max_checkpoints)]
    /\ snapshots' = Dropped(snapshots, records[CheckpointList], records'[CheckpointList])
    /\ UNCHANGED <<baseVars, signerVars, assetVars, last_checkpoint, archived, keys,
                   liq_depth, policy, retention_override, last_cleanup, expiration, written>>

CreateCheckpoint(caller) ==
    /\ ~blocked /\ Governs(caller)
    /\ UNCHANGED <<baseVars, signerVars, assetVars>>
    /\ Persisted(0)

\* Mutant: a price recorded since the snapshot stays.
Restored_Priced(then, a, now_held, then_held) ==
    IF a \in Range(then.monitored)
    THEN IF then_held = Nothing THEN now_held ELSE then_held
    ELSE IF a \in Range(monitored) THEN Nothing ELSE now_held

\* What a restore does to a record of one asset: an asset of the snapshot gets
\* the record the snapshot has, or none; one that is monitored now and is not
\* in the snapshot loses its own; others are left alone.
Restored(then, a, now_held, then_held) ==
    IF a \in Range(then.monitored) THEN then_held
    ELSE IF a \in Range(monitored) THEN Nothing ELSE now_held

\* Locks, histories and settings other than the weights stay as they are.
RestoreFromCheckpoint(caller, id) ==
    LET then == snapshots[id]
    IN  /\ ~blocked /\ Governs(caller)
        /\ then # Nothing
        /\ monitored' = then.monitored
        /\ weights' = then.weights
        /\ risk' = then.risk
        /\ health' = [a \in Assets |-> Restored(then, a, health[a], then.health[a])]
        /\ price' = [a \in Assets |-> Restored(then, a, price[a], then.price[a])]
        /\ result' = [a \in Assets |-> Restored(then, a, result[a], then.result[a])]
        /\ UNCHANGED <<baseVars, signerVars, price_history, lock, lock_history, source>>
        /\ Persisted(id)
-----------------------------------------------------------------------------
(* Assets.                                                                  *)

\* Settings of an asset write its health record and nothing else.
RegisterAsset(caller, a) ==
    /\ ~blocked /\ Permitted(caller)
    /\ a \notin Range(monitored)
    /\ health' = [health EXCEPT ![a] = AssetHealth(0, Fresh)]
    /\ monitored' = Append(monitored, a)
    /\ UNCHANGED <<baseVars, signerVars, price, result, price_history, lock, lock_history,
                   source, weights, risk>>
    /\ AutoCheckpoint

SetStatus(a, status) ==
    /\ health' = [health EXCEPT ![a] = AssetHealth(@.score, status)]
    /\ UNCHANGED <<baseVars, signerVars, monitored, price, result, price_history, lock,
                   lock_history, source, weights, risk>>
    /\ AutoCheckpoint

\* pause_asset and unpause_asset do not look at the pause of the contract.
PauseAsset(caller, a) ==
    /\ Permitted(caller)
    /\ lock[a] # "locked"
    /\ health[a] # Nothing /\ health[a].active
    /\ SetStatus(a, [paused |-> TRUE, active |-> TRUE])

UnpauseAsset(caller, a) ==
    /\ Permitted(caller)
    /\ lock[a] # "locked"
    /\ health[a] # Nothing /\ health[a].active
    /\ SetStatus(a, [paused |-> FALSE, active |-> TRUE])

\* deregister_asset does not look at the lock; the asset stays in the list.
DeregisterAsset(caller, a) ==
    /\ ~blocked /\ Permitted(caller)
    /\ health[a] # Nothing
    /\ SetStatus(a, [paused |-> FALSE, active |-> FALSE])

LockAsset(caller, a) ==
    /\ ~blocked /\ Permitted(caller)
    /\ health[a] # Nothing /\ health[a].active
    /\ lock[a] # "locked"
    /\ Len(lock_history[a]) < MaxLocks
    /\ lock' = [lock EXCEPT ![a] = "locked"]
    /\ lock_history' = [lock_history EXCEPT ![a] = Append(@, TRUE)]
    /\ UNCHANGED <<baseVars, retentionVars, signerVars, monitored, health, price, result,
                   price_history, source, weights, risk, checkpointVars>>

UnlockAsset(caller, a) ==
    /\ ~blocked /\ Permitted(caller)
    /\ health[a] # Nothing /\ health[a].active
    /\ lock[a] = "locked"
    /\ Len(lock_history[a]) < MaxLocks
    /\ lock' = [lock EXCEPT ![a] = "unlocked"]
    /\ lock_history' = [lock_history EXCEPT ![a] = Append(@, FALSE)]
    /\ UNCHANGED <<baseVars, retentionVars, signerVars, monitored, health, price, result,
                   price_history, source, weights, risk, checkpointVars>>

\* A source that was revoked can be registered again.
RegisterTrustedSource(caller, a) ==
    /\ Configures(caller)
    /\ source' = [source EXCEPT ![a] = "active"]
    /\ UNCHANGED <<baseVars, retentionVars, signerVars, monitored, health, price, result,
                   price_history, lock, lock_history, weights, risk, checkpointVars>>

RevokeTrustedSource(caller, a) ==
    /\ Configures(caller)
    /\ source[a] = "active"
    /\ source' = [source EXCEPT ![a] = "revoked"]
    /\ UNCHANGED <<baseVars, retentionVars, signerVars, monitored, health, price, result,
                   price_history, lock, lock_history, weights, risk, checkpointVars>>

SetHealthWeights(caller, w) ==
    /\ ~blocked /\ Governs(caller)
    /\ w.liquidity + w.stability + w.uptime = 100
    /\ weights' = w
    /\ UNCHANGED <<baseVars, signerVars, monitored, health, price, result, price_history, lock,
                   lock_history, source, risk>>
    /\ AutoCheckpoint

SetRiskScoreConfig(caller, config) ==
    /\ ~blocked /\ Governs(caller)
    /\ risk' = config
    /\ UNCHANGED <<baseVars, signerVars, monitored, health, price, result, price_history, lock,
                   lock_history, source, weights>>
    /\ AutoCheckpoint
-----------------------------------------------------------------------------
(* Submissions.                                                             *)

\* assert_asset_accepting_submissions, on a record that exists.
Accepting(a) == health[a] # Nothing /\ health[a].active /\ ~health[a].paused

\* Sources count once one is active; the administrator is exempt.
Trusted(caller) ==
    \/ caller = ADMIN
    \/ source[caller] = "active"
    \/ \A a \in Address : source[a] # "active"

HealthWritten(caller, a, score) ==
    /\ RateLimited(caller)
    /\ lock[a] # "locked"
    /\ Trusted(caller)
    /\ Accepting(a)
    /\ health' = [health EXCEPT ![a] = AssetHealth(score, @)]
    /\ UNCHANGED <<now, blocked, rate_limit, monitored, price, result, price_history, lock,
                   lock_history, source, weights, risk>>
    /\ AutoCheckpoint

PriceWritten(caller, a, amount) ==
    /\ RateLimited(caller)
    /\ lock[a] # "locked"
    /\ Trusted(caller)
    /\ Accepting(a)
    /\ Len(price_history[a]) < MaxHistory
    /\ price' = [price EXCEPT ![a] = PriceRecord(amount)]
    /\ price_history' = [price_history EXCEPT ![a] = Append(@, PriceRecord(amount))]
    /\ UNCHANGED <<now, blocked, rate_limit, monitored, health, result, lock, lock_history,
                   source, weights, risk>>
    /\ AutoCheckpoint

\* A batch looks neither at the lock nor at the source; one asset may come twice.
BatchWritten(caller, items) ==
    /\ RateLimited(caller)
    /\ Len(items) <= MaxBatch
    /\ \A i \in DOMAIN items : Accepting(items[i][1])
    /\ health' = FoldLeft(LAMBDA h, item : [h EXCEPT ![item[1]] = AssetHealth(item[2], @)],
                          health, items)
    /\ UNCHANGED <<now, blocked, rate_limit, monitored, price, result, price_history, lock,
                   lock_history, source, weights, risk>>
    /\ AutoCheckpoint

SubmitHealth(caller, a, score) ==
    /\ Permitted(caller)
    /\ UNCHANGED signerVars
    /\ HealthWritten(caller, a, score)

SubmitPrice(caller, a, amount) ==
    /\ Permitted(caller)
    /\ UNCHANGED signerVars
    /\ PriceWritten(caller, a, amount)

SubmitHealthBatch(caller, items) ==
    /\ Permitted(caller)
    /\ UNCHANGED signerVars
    /\ BatchWritten(caller, items)

\* A signed submission is verified first.  The payload of a batch is that of its
\* records one after the other, so a batch of one has the payload of the record.
SubmitHealthSigned(caller, a, score, sig) ==
    /\ Permitted(caller)
    /\ SignedOnce(<<<<a, score>>>>, sig)
    /\ HealthWritten(caller, a, score)

SubmitPriceSigned(caller, a, amount, sig) ==
    /\ Permitted(caller)
    /\ SignedOnce(<<<<a, amount, "price">>>>, sig)
    /\ PriceWritten(caller, a, amount)

SubmitHealthBatchSigned(caller, items, sigs) ==
    /\ Permitted(caller)
    /\ SignedByMany(items, sigs)
    /\ BatchWritten(caller, items)

Composite(c) ==
    (c[1] * weights.liquidity + c[2] * weights.stability + c[3] * weights.uptime) \div 100

\* Mutant: the status of the asset is not looked at.
SubmitCalculatedHealth_Paused(caller, a, c, override) ==
    /\ Permitted(caller)
    /\ RateLimited(caller)
    /\ health[a] # Nothing
    /\ \A i \in 1 .. 3 : c[i] <= 100
    /\ \A o \in override : o <= 100
    /\ health' = [health EXCEPT ![a] =
            AssetHealth(IF override = {} THEN Composite(c) ELSE CHOOSE o \in override : TRUE, @)]
    /\ result' = [result EXCEPT ![a] =
            [composite |-> Composite(c), weights |-> weights,
             expires_at |-> now + expiration.asset_ttl]]
    /\ UNCHANGED <<now, blocked, rate_limit, signerVars, monitored, price, price_history, lock,
                   lock_history, source, weights, risk>>
    /\ AutoCheckpoint

\* Neither the lock nor the source is looked at.  override is {} for none.
SubmitCalculatedHealth(caller, a, c, override) ==
    /\ Permitted(caller)
    /\ RateLimited(caller)
    /\ Accepting(a)
    /\ \A i \in 1 .. 3 : c[i] <= 100
    /\ \A o \in override : o <= 100
    /\ health' = [health EXCEPT ![a] =
            AssetHealth(IF override = {} THEN Composite(c) ELSE CHOOSE o \in override : TRUE, @)]
    /\ result' = [result EXCEPT ![a] =
            [composite |-> Composite(c), weights |-> weights,
             expires_at |-> now + expiration.asset_ttl]]
    /\ UNCHANGED <<now, blocked, rate_limit, signerVars, monitored, price, price_history, lock,
                   lock_history, source, weights, risk>>
    /\ AutoCheckpoint
-----------------------------------------------------------------------------
(* Expiry of the records of assets and pairs.                               *)

Extended(r, extra) ==
    IF r = Nothing THEN r
    ELSE [r EXCEPT !.expires_at = extra + (IF @ > now THEN @ ELSE now)]

\* Bound: nothing is extended that already outlives MaxNow.
ExtendExpiration(caller, a, extra) ==
    /\ Permitted(caller)
    /\ \A r \in {health[a], price[a], result[a]} : r.expires_at <= MaxNow
    /\ health' = [health EXCEPT ![a] = Extended(@, extra)]
    /\ price' = [price EXCEPT ![a] = Extended(@, extra)]
    /\ result' = [result EXCEPT ![a] = Extended(@, extra)]
    /\ UNCHANGED <<baseVars, retentionVars, signerVars, monitored, price_history, lock,
                   lock_history, source, weights, risk, checkpointVars>>

Expires(r) == r # Nothing /\ Past(r)
Swept(r, left) == IF left > 0 /\ Expires(r) THEN Nothing ELSE r
Spent(r, left) == IF left > 0 /\ Expires(r) THEN left - 1 ELSE left

\* One asset of cleanup_expired_data; nothing is done once the budget is spent.
SweptAsset(s, a) ==
    LET left1 == Spent(s.health[a], s.left)
        left2 == Spent(s.price[a], left1)
    IN  IF s.left = 0 THEN s
        ELSE [health  |-> [s.health EXCEPT ![a] = Swept(@, s.left)],
              price   |-> [s.price EXCEPT ![a] = Swept(@, left1)],
              result  |-> [s.result EXCEPT ![a] = Swept(@, left2)],
              history |-> [s.history EXCEPT ![a] = Trimmed(@)],
              left    |-> Spent(s.result[a], left2)]

\* The histories of bridges and pairs are trimmed whatever the budget.  The
\* sweep may take the health record of a monitored asset.
CleanupExpiredData(caller, max) ==
    LET swept == FoldLeft(SweptAsset, [health |-> health, price |-> price, result |-> result,
                                       history |-> price_history, left |-> max], monitored)
        depths == FoldLeft(LAMBDA s, pair :
                    IF s.left > 0 /\ s.depth[pair] # NoRecord /\ Past(s.depth[pair])
                    THEN [depth |-> [s.depth EXCEPT ![pair] = NoRecord], left |-> s.left - 1]
                    ELSE s, [depth |-> liq_depth, left |-> swept.left], keys["LiquidityHistory"])
    IN  /\ Governs(caller)
        /\ health' = swept.health
        /\ price' = swept.price
        /\ result' = swept.result
        /\ price_history' = swept.history
        /\ records' = [key \in Key |-> IF key = CheckpointList THEN records[key]
                                       ELSE Trimmed(records[key])]
        /\ liq_depth' = depths.depth
        /\ UNCHANGED <<baseVars, signerVars, monitored, lock, lock_history, source, weights, risk,
                       checkpointVars, archived, keys, policy, retention_override, last_cleanup,
                       expiration, written>>
-----------------------------------------------------------------------------
\* Clean-ups that drop a checkpoint remove its snapshot.
SnapshotsFollow ==
    /\ snapshots' = Dropped(snapshots, records[CheckpointList], records'[CheckpointList])
    /\ UNCHANGED <<signerVars, assetVars, checkpointing, last_checkpoint>>

RetentionStep ==
    \/ \E bridge \in Bridges, a \in MismatchAssets : RecordSupplyMismatch(bridge, a) /\ SnapshotsFollow
    \/ \E pair \in Pairs : RecordLiquidityDepth(pair) /\ SnapshotsFollow
    \/ \E caller \in Address :
          \/ \E k \in Kind, new \in RetentionPolicies :
                SetRetentionPolicy(caller, k, new) /\ SnapshotsFollow
          \/ \E a \in MismatchAssets \cup Pairs, k \in Kind, secs \in RetentionOverrides :
                SetAssetRetentionOverride(caller, a, k, secs) /\ SnapshotsFollow
          \/ \E max \in Budgets :
                \/ CleanupOldData(caller, max) /\ SnapshotsFollow
                \/ \E k \in Kind : CleanupDataType(caller, k, max) /\ SnapshotsFollow
                \/ CleanupExpiredData(caller, max)
          \/ \E new \in ExpirationPolicies : SetExpirationPolicy(caller, new) /\ SnapshotsFollow

BaseStep ==
    /\ \/ Tick
       \/ Block
       \/ \E caller \in Address, limit \in Limits : SetRateLimitConfig(caller, limit)
    /\ UNCHANGED <<retentionVars, signerVars, assetVars, checkpointVars>>

SignerStep ==
    /\ SignersNext
    /\ UNCHANGED <<baseVars, retentionVars, assetVars, checkpointVars>>

SignatureLists ==
    {<<sig>> : sig \in SignerSignature} \cup (SignerSignature \X SignerSignature)

Items == {<<i>> : i \in Assets \X Scores} \cup ((Assets \X Scores) \X (Assets \X Scores))

Next ==
    \/ RetentionStep \/ BaseStep \/ SignerStep
    \/ \E caller \in Address :
          \/ \E config \in Checkpointing : SetCheckpointConfig(caller, config)
          \/ CreateCheckpoint(caller)
          \/ \E id \in CheckpointId : RestoreFromCheckpoint(caller, id)
          \/ \E a \in Sources : RegisterTrustedSource(caller, a) \/ RevokeTrustedSource(caller, a)
          \/ \E w \in HealthWeights : SetHealthWeights(caller, w)
          \/ \E config \in RiskConfigs : SetRiskScoreConfig(caller, config)
          \/ \E items \in Items : SubmitHealthBatch(caller, items)
          \/ \E items \in Items, sigs \in SignatureLists :
                SubmitHealthBatchSigned(caller, items, sigs)
    \/ \E caller \in Address, a \in Assets :
          \/ RegisterAsset(caller, a) \/ PauseAsset(caller, a) \/ UnpauseAsset(caller, a)
          \/ DeregisterAsset(caller, a) \/ LockAsset(caller, a) \/ UnlockAsset(caller, a)
          \/ \E n \in Scores : SubmitHealth(caller, a, n) \/ SubmitPrice(caller, a, n)
          \/ \E n \in Scores, sig \in SignerSignature :
                SubmitHealthSigned(caller, a, n, sig) \/ SubmitPriceSigned(caller, a, n, sig)
          \/ \E c \in Components, override \in {{}} \cup {{n} : n \in Scores} :
                SubmitCalculatedHealth(caller, a, c, override)
          \/ \E extra \in Extensions : ExtendExpiration(caller, a, extra)

Spec == Init /\ [][Next]_vars
-----------------------------------------------------------------------------
TypeOK ==
    /\ BaseTypeOK /\ RetentionTypeOK /\ SignersTypeOK
    /\ Range(monitored) \subseteq Assets /\ IsInjective(monitored)
    /\ \A a \in Assets :
          /\ lock[a] \in {"none", "locked", "unlocked"}
          /\ health[a] # Nothing => health[a].paused \in BOOLEAN /\ health[a].active \in BOOLEAN
    /\ source \in [Address -> {"none", "active", "revoked"}]
    /\ last_checkpoint \in 0 .. MaxNow

(* The history of locks is one story with the lock: locks and unlocks       *)
(* alternate and the last entry is the state that submissions look at.      *)
LockHistoryTrue ==
    \A a \in Assets :
        /\ \A i \in DOMAIN lock_history[a] : lock_history[a][i] = (i % 2 = 1)
        /\ (lock[a] = "locked") = (lock_history[a] # <<>> /\ Last(lock_history[a]))

(* The checkpoints listed are the ones stored: no more than the maximum,    *)
(* oldest first, each restorable.                                           *)
SnapshotsListed ==
    LET list == records[CheckpointList]
    IN  /\ Ids(list) = {id \in CheckpointId : snapshots[id] # Nothing}
        /\ Len(list) <= checkpointing.max_checkpoints
        /\ \A i, j \in DOMAIN list : i < j => list[i].id < list[j].id

(* A restore gives the contract the state of the checkpoint: the checkpoint *)
(* it saves holds what the one it restored holds.                           *)
RestoreExact ==
    \A id \in CheckpointId :
        (snapshots[id] # Nothing /\ snapshots[id].restored_from # 0) =>
            LET then == snapshots[snapshots[id].restored_from]
            IN  then # Nothing =>
                    /\ then.monitored = snapshots[id].monitored
                    /\ then.weights = snapshots[id].weights /\ then.risk = snapshots[id].risk
                    /\ \A a \in Range(then.monitored) :
                          /\ then.health[a] = snapshots[id].health[a]
                          /\ then.price[a] = snapshots[id].price[a]
                          /\ then.result[a] = snapshots[id].result[a]

\* The step restores a checkpoint.
Restores ==
    \E id \in CheckpointId :
        snapshots[id] = Nothing /\ snapshots'[id] # Nothing /\ snapshots'[id].restored_from # 0

\* A submission writes a reading of an asset; a sweep only removes.
Writes(a) ==
    /\ ~Restores
    /\ health[a] # Nothing /\ health'[a] # Nothing
    /\ \/ health'[a].score # health[a].score
       \/ Len(price_history'[a]) > Len(price_history[a])

(* No submission, of any of the seven kinds, writes an asset while it is    *)
(* paused or after it is deregistered.                                      *)
InactiveUntouched == \A a \in Assets : Writes(a) => Accepting(a)

(* What is recorded agrees with what happened, in each of these ways.       *)
RecordsTrue == LockHistoryTrue /\ SnapshotsListed /\ RestoreExact /\ RecordsOnce
===============================================================================
