-------------------------------- MODULE MCMonitor --------------------------------
(***************************************************************************)
(* Instances of OperatorRotation and AssetMonitor for TLC.  The operators  *)
(* and what is monitored share no state that these modules move, and       *)
(* AssetMonitor keeps several kinds of records apart that are swept by the *)
(* same rules: a behaviour is one of one part, the one that part names,    *)
(* with the constants that make its cases happen.  clock is the monitor's  *)
(* ledger timestamp, which starts at 1.                                    *)
(***************************************************************************)
EXTENDS OperatorRotation

CONSTANTS alice, bob, op1, op2

People == {alice, bob}
OnlyBob == {bob}
Crew == {op1, op2}
Everyone == People \cup Crew

OneSecond == [delay_secs |-> 1, grace_period_secs |-> 1]
NoneOrTwo == {[OneSecond EXCEPT !.delay_secs = n] : n \in {0, 2}}

\* Retention, expiration and checkpoint settings.
Pol(retention, interval, most, archive) ==
    [retention_secs |-> retention, trigger_interval_secs |-> interval,
     max_deletions_per_run |-> most, archive_before_delete |-> archive, enabled |-> TRUE]
Exp(ttl, keep) ==
    [asset_ttl |-> ttl, price_ttl |-> ttl, mismatch_ttl |-> ttl, liquidity_ttl |-> ttl,
     preserve_latest_history |-> keep]
Chk(interval, most) == [interval_secs |-> interval, max_checkpoints |-> most]

VARIABLES
    part,               \* the instance whose behaviour this is
    clock, blocked, rate_limit, usage, signer, nonce, sig_cache, sig_threshold, taken,
    records, archived, keys, liq_depth, policy, retention_override, last_cleanup,
    expiration, written, monitored, health, price, result, price_history, lock,
    lock_history, source, weights, risk, checkpointing, last_checkpoint, snapshots

rotationPart == <<now, admin, globally_paused, grants, operators, rotation_config, pending>>
monitorPart ==
    <<clock, blocked, rate_limit, usage, signer, nonce, sig_cache,
      sig_threshold, taken, records, archived, keys, liq_depth, policy,
      retention_override, last_cleanup, expiration, written, monitored, health, price,
      result, price_history, lock, lock_history, source, weights, risk, checkpointing,
      last_checkpoint, snapshots>>

\* Two submitters, one asset: locks, pauses, deregistration, trusted sources.
Submissions == INSTANCE AssetMonitor WITH
    Address <- {"admin", "sub"}, ADMIN <- "admin", Supers <- {},
    RoleHolders <- {"sub"}, ConfigManagers <- {"sub"}, Limits <- {}, CanBlock <- TRUE,
    MaxNow <- 2,
    SignerId <- {}, Message <- {}, MaxNonce <- 0, Expiries <- {0}, Thresholds <- {},
    Bridges <- {}, Pairs <- {}, MismatchAssets <- {}, RetentionPolicies <- {},
    RetentionOverrides <- {}, Budgets <- {}, DefaultPolicy <- Pol(100, 1, 50, FALSE),
    ExpirationPolicies <- {}, DefaultExpiration <- Exp(1, TRUE), MaxRecords <- 1,
    Assets <- {"usdc"}, Scores <- {90}, Components <- {<<50, 60, 70>>},
    HealthWeights <- {}, RiskConfigs <- {1}, Checkpointing <- {},
    DefaultCheckpointing <- Chk(100, 10), Extensions <- {}, MaxHistory <- 1,
    MaxLocks <- 2, Sources <- {"admin", "sub"}, MaxBatch <- 20, now <- clock

\* Expiry and its extension, sweeps, rate limits.
Expiry == INSTANCE AssetMonitor WITH
    Address <- {"admin"}, ADMIN <- "admin", Supers <- {}, RoleHolders <- {},
    ConfigManagers <- {}, Limits <- {[window_secs |-> 1, max_calls |-> 1]},
    CanBlock <- FALSE, MaxNow <- 2,
    SignerId <- {}, Message <- {}, MaxNonce <- 0, Expiries <- {0}, Thresholds <- {},
    Bridges <- {}, Pairs <- {}, MismatchAssets <- {}, RetentionPolicies <- {},
    RetentionOverrides <- {}, Budgets <- {2},
    DefaultPolicy <- Pol(100, 100, 50, FALSE), ExpirationPolicies <- {Exp(0, TRUE)},
    DefaultExpiration <- [Exp(0, TRUE) EXCEPT !.price_ttl = 1], MaxRecords <- 1,
    Assets <- {"usdc"}, Scores <- {90}, Components <- {<<50, 60, 70>>},
    HealthWeights <- {},
    RiskConfigs <- {}, Checkpointing <- {}, DefaultCheckpointing <- Chk(100, 10),
    Extensions <- {1}, MaxHistory <- 1, MaxLocks <- 0, Sources <- {}, MaxBatch <- 20,
    now <- clock

\* Two signers, a threshold of two, nonces and the cache.
Signed == INSTANCE AssetMonitor WITH
    Address <- {"admin"}, ADMIN <- "admin", Supers <- {}, RoleHolders <- {},
    ConfigManagers <- {}, Limits <- {}, CanBlock <- FALSE, MaxNow <- 2,
    SignerId <- {"s1", "s2"},
    Message <- {<<<<"usdc", 90>>>>}, MaxNonce <- 1, Expiries <- {1},
    Thresholds <- {2}, Bridges <- {}, Pairs <- {}, MismatchAssets <- {},
    RetentionPolicies <- {}, RetentionOverrides <- {}, Budgets <- {},
    DefaultPolicy <- Pol(100, 1, 50, FALSE), ExpirationPolicies <- {},
    DefaultExpiration <- Exp(1, TRUE), MaxRecords <- 1, Assets <- {"usdc"},
    Scores <- {90}, Components <- {}, HealthWeights <- {}, RiskConfigs <- {},
    Checkpointing <- {}, DefaultCheckpointing <- Chk(100, 10), Extensions <- {},
    MaxHistory <- 1, MaxLocks <- 0, Sources <- {}, MaxBatch <- 20, now <- clock

\* Supply mismatches of a bridge under changing retention and archiving.
Mismatches == INSTANCE AssetMonitor WITH
    Address <- {"admin"}, ADMIN <- "admin", Supers <- {}, RoleHolders <- {},
    ConfigManagers <- {}, Limits <- {}, CanBlock <- FALSE, MaxNow <- 3,
    SignerId <- {}, Message <- {}, MaxNonce <- 0, Expiries <- {0}, Thresholds <- {},
    Bridges <- {"bridge"},
    Pairs <- {}, MismatchAssets <- {"usdc"},
    RetentionPolicies <- {Pol(1, 1, 1, TRUE)}, RetentionOverrides <- {},
    Budgets <- {1}, DefaultPolicy <- Pol(1, 1, 50, FALSE), ExpirationPolicies <- {},
    DefaultExpiration <- Exp(2, TRUE), MaxRecords <- 3, Assets <- {}, Scores <- {},
    Components <- {}, HealthWeights <- {}, RiskConfigs <- {}, Checkpointing <- {},
    DefaultCheckpointing <- Chk(100, 10), Extensions <- {}, MaxHistory <- 2,
    MaxLocks <- 0, Sources <- {}, MaxBatch <- 20, now <- clock

\* Liquidity of a pair under retention overrides and expiration settings.
Depths == INSTANCE AssetMonitor WITH
    Address <- {"admin"}, ADMIN <- "admin", Supers <- {}, RoleHolders <- {},
    ConfigManagers <- {}, Limits <- {}, CanBlock <- FALSE, MaxNow <- 3,
    SignerId <- {}, Message <- {}, MaxNonce <- 0, Expiries <- {0}, Thresholds <- {},
    Bridges <- {},
    Pairs <- {"pair"}, MismatchAssets <- {}, RetentionPolicies <- {},
    RetentionOverrides <- {0, 1}, Budgets <- {1},
    DefaultPolicy <- Pol(100, 1, 50, TRUE), ExpirationPolicies <- {Exp(2, FALSE)},
    DefaultExpiration <- Exp(1, TRUE), MaxRecords <- 2, Assets <- {}, Scores <- {},
    Components <- {}, HealthWeights <- {}, RiskConfigs <- {}, Checkpointing <- {},
    DefaultCheckpointing <- Chk(100, 10), Extensions <- {}, MaxHistory <- 2,
    MaxLocks <- 0, Sources <- {}, MaxBatch <- 20, now <- clock

\* Checkpoints by hand and by the calls, their pruning, restores.
Checkpoints == INSTANCE AssetMonitor WITH
    Address <- {"admin"}, ADMIN <- "admin", Supers <- {}, RoleHolders <- {},
    ConfigManagers <- {}, Limits <- {}, CanBlock <- FALSE, MaxNow <- 2,
    SignerId <- {}, Message <- {}, MaxNonce <- 0, Expiries <- {0}, Thresholds <- {},
    Bridges <- {}, Pairs <- {},
    MismatchAssets <- {}, RetentionPolicies <- {}, RetentionOverrides <- {},
    Budgets <- {}, DefaultPolicy <- Pol(1, 1, 1, TRUE), ExpirationPolicies <- {},
    DefaultExpiration <- Exp(1, TRUE), MaxRecords <- 3, Assets <- {"usdc"},
    Scores <- {90}, Components <- {},
    HealthWeights <- {[liquidity |-> 40, stability |-> 40, uptime |-> 20]},
    RiskConfigs <- {}, Checkpointing <- {Chk(5, 1)},
    DefaultCheckpointing <- Chk(2, 2), Extensions <- {}, MaxHistory <- 1,
    MaxLocks <- 0, Sources <- {}, MaxBatch <- 20, now <- clock

ASSUME MonitorAssumption ==
    /\ Submissions!MonitorConstants /\ Expiry!MonitorConstants /\ Signed!MonitorConstants
    /\ Mismatches!MonitorConstants /\ Depths!MonitorConstants
    /\ Checkpoints!MonitorConstants
-----------------------------------------------------------------------------
\* The other parts are as they were deployed; of the settings of the monitor, which
\* differ by instance, the one of the part.
PInit ==
    /\ Init
    /\ \/ part \in {"rotation", "assets"} /\ Submissions!Init
       \/ part = "expiry" /\ Expiry!Init
       \/ part = "signed" /\ Signed!Init
       \/ part = "bridges" /\ Mismatches!Init
       \/ part = "pairs" /\ Depths!Init
       \/ part = "checkpoints" /\ Checkpoints!Init

PNext ==
    \/ /\ part = "rotation" /\ Next
       /\ UNCHANGED <<part, monitorPart>>
    \/ /\ part = "assets" /\ Submissions!Next
       /\ UNCHANGED <<part, rotationPart>>
    \/ /\ part = "expiry" /\ Expiry!Next
       /\ UNCHANGED <<part, rotationPart>>
    \/ /\ part = "signed" /\ Signed!Next
       /\ UNCHANGED <<part, rotationPart>>
    \/ /\ part = "bridges" /\ Mismatches!Next
       /\ UNCHANGED <<part, rotationPart>>
    \/ /\ part = "pairs" /\ Depths!Next
       /\ UNCHANGED <<part, rotationPart>>
    \/ /\ part = "checkpoints" /\ Checkpoints!Next
       /\ UNCHANGED <<part, rotationPart>>

allVars == <<part, rotationPart, monitorPart>>

PSpec == PInit /\ [][PNext]_allVars
-----------------------------------------------------------------------------
\* Each variable of each part holds values of its type.
TypesOK ==
    /\ part = "rotation" => TypeOK
    /\ part = "assets" => Submissions!TypeOK
    /\ part = "expiry" => Expiry!TypeOK
    /\ part = "signed" => Signed!TypeOK
    /\ part = "bridges" => Mismatches!TypeOK
    /\ part = "pairs" => Depths!TypeOK
    /\ part = "checkpoints" => Checkpoints!TypeOK

\* What is recorded agrees with what happened, through locks, sweeps, prunings and
\* restores: the lock of an asset with its history, the list of checkpoints with their
\* snapshots, a restored asset with the snapshot, and no record is kept twice, in its
\* list, its archive or both.
RecordsTrue ==
    /\ part = "assets" => Submissions!RecordsTrue
    /\ part = "expiry" => Expiry!RecordsTrue
    /\ part = "signed" => Signed!RecordsTrue
    /\ part = "bridges" => Mismatches!RecordsTrue
    /\ part = "pairs" => Depths!RecordsTrue
    /\ part = "checkpoints" => Checkpoints!RecordsTrue

\* The nonces of a signer rise, whether signers were removed or the threshold raised since,
\* and a payload is taken on a signature that is genuine: its own, or one taken before it.
SignaturesTrue ==
    /\ part = "signed" => Signed!SignaturesOnce /\ Signed!CacheEarned

\* A record is deleted when it expired, or when its retention is over, and then into the
\* archive if there is to be one and never the latest; a submission writes no asset that is
\* paused or was deregistered.
StepsJustified ==
    [][/\ part = "assets" => Submissions!DeletedDue /\ Submissions!InactiveUntouched
       /\ part = "expiry" => Expiry!DeletedDue /\ Expiry!InactiveUntouched
       /\ part = "signed" => Signed!DeletedDue /\ Signed!InactiveUntouched
       /\ part = "bridges" => Mismatches!DeletedDue /\ Mismatches!InactiveUntouched
       /\ part = "pairs" => Depths!DeletedDue /\ Depths!InactiveUntouched
       /\ part = "checkpoints" => Checkpoints!DeletedDue /\ Checkpoints!InactiveUntouched]_allVars
=============================================================================
