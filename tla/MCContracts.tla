------------------------------ MODULE MCContracts ------------------------------
(***************************************************************************)
(* Instances of the contracts that stand alone, for TLC.  They share no    *)
(* state and call none of the others: a behaviour is one of one of         *)
(* them, the one that contract names, while the others stay as they were   *)
(* deployed, so that one run checks each of them with all of its           *)
(* interleavings and never multiplies their states.                        *)
(***************************************************************************)
EXTENDS Integers, Sequences

CONSTANTS leaf1, leaf2      \* leaves of a committed tree

OneSplit == {[stakers |-> 5000, governance |-> 3000, treasury |-> 2000]}
Both(limits) == [value |-> limits, count |-> limits]

VARIABLES
    contract,           \* the instance whose behaviour this is
    now,                \* ledger timestamp
    rec_admin, emergency_enabled, recovery_seq, timelock, total_recovered,
    recovery_history, authorizations, recoveries, fund, repaid, payments,
    treasurer, treasury_config, signers, signer_count, payable_assets, nonce, tx_count,
    transactions,
    insurance_governance, pool, positions, claims, last_claim, withdrawals,
    ratios, tokens, collectors, interval, last_round, halted, fee_pools, rounds,
    total_staked, stake, compounds, debt, unclaimed, schedules, held,
    default_limits, global_limits, cooldown_duration, emergency_mode, anomaly_score,
    tripped, trip_count, user_limits, whitelisted, risk, usage, global_usage,
    usage_history, spent, limiter_changes,
    breaker_guardians, pause_count, pauses, recovery_requests, trigger_configs,
    listed_addresses, listed_assets,
    metadata, versions, asset_list, category_index, status_index, links,
    compliance_records, listed_for_use, frozen,
    reputation, performance, leaderboard, total_entities, reputation_config,
    settings, operators, commitments, direct_slashes,
    ring, daily, liquidity_pools, log

recoveryVars == <<rec_admin, emergency_enabled, recovery_seq, timelock, total_recovered,
    recovery_history, authorizations, recoveries, fund, repaid, payments>>
treasuryVars == <<treasurer, treasury_config, signers, signer_count, payable_assets,
    nonce, tx_count, transactions>>
insuranceVars == <<insurance_governance, pool, positions, claims, last_claim,
    withdrawals>>
feesVars == <<ratios, tokens, collectors, interval, last_round, halted, fee_pools,
    rounds, total_staked, stake, compounds, debt, unclaimed, schedules, held>>
limiterVars == <<default_limits, global_limits, cooldown_duration, emergency_mode,
    anomaly_score, tripped, trip_count, user_limits, whitelisted, risk, usage,
    global_usage, usage_history, spent, limiter_changes>>
breakerVars == <<breaker_guardians, pause_count, pauses, recovery_requests,
    trigger_configs, listed_addresses, listed_assets>>
registryVars == <<metadata, versions, asset_list, category_index, status_index, links,
    compliance_records, listed_for_use, frozen>>
reputationVars == <<reputation, performance, leaderboard, total_entities,
    reputation_config>>
reservesVars == <<settings, operators, commitments, direct_slashes>>
liquidityVars == <<ring, daily, liquidity_pools, log>>

Recovery == INSTANCE FundRecovery WITH
    Address <- {"a", "b"}, Admins <- {"a"}, Timelocks <- {1}, MaxTimelock <- 2,
    Grants <- {{"initiate", "cancel"}, {"approve", "execute"}}, Amounts <- {3},
    Holdings <- 5, MaxRecoveries <- 2, MaxNow <- 1
Multisig == INSTANCE Treasury WITH
    Account <- {"a", "b", "c"}, Asset <- {"x"}, Admins <- {"a"}, Panels <- {<<"a", "b">>},
    Configs <- {[threshold |-> 2, emergency_threshold |-> 1, time_delay |-> 1,
                 max_transactions_per_day |-> 2, require_emergency_approval |-> TRUE]},
    Amounts <- {1, 20}, SpendingLimit <- 10, MaxSigners <- 3, MaxNonce <- 1, MaxNow <- 1,
    admin <- treasurer, config <- treasury_config, whitelist <- payable_assets
Insurance == INSTANCE InsurancePool WITH
    Account <- {"a", "b"}, Admin <- "a",
    Approvals <- {[approvers |-> <<"a", "b">>, threshold |-> 2, delay |-> 0]},
    Rates <- {5000}, Risks <- {10000}, Limits <- {[amount |-> 8, bps |-> 0, cooldown |-> 0]},
    DefaultLimits <- [amount |-> 0, bps |-> 2000, cooldown |-> 0], DefaultDelay <- 0,
    Stakes <- {10}, Coverages <- {8}, ClaimAmounts <- {2}, Slashes <- {10000},
    RewardScale <- 1000, MaxStake <- 20, MaxClaims <- 1, MaxRequests <- 1, MaxNow <- 1,
    governance <- insurance_governance, requests <- withdrawals
Staking == INSTANCE FeeDistribution WITH
    Staker <- {"a", "b"}, Collector <- {}, Admin <- "admin", Token <- {"fee"},
    StakingToken <- "stk", RatioChoices <- OneSplit, Precision <- 100, Fees <- {4},
    Stakes <- {1, 2}, Intervals <- {}, Vestings <- {}, Withdrawals <- {},
    MaxCollected <- 8, MaxStaked <- 4, MaxSchedules <- 0, MaxNow <- 0,
    pools <- fee_pools
Rounds == INSTANCE FeeDistribution WITH
    Staker <- {"a"}, Collector <- {"c"}, Admin <- "admin", Token <- {"fee"},
    StakingToken <- "stk", RatioChoices <- OneSplit, Precision <- 100, Fees <- {4},
    Stakes <- {1}, Intervals <- {0, 1},
    Vestings <- {[amount |-> 2, duration |-> 2, cliff |-> 1]}, Withdrawals <- {4},
    MaxCollected <- 8, MaxStaked <- 1, MaxSchedules <- 1, MaxNow <- 2,
    pools <- fee_pools
Limiter == INSTANCE RateLimiter WITH
    User <- {"a"}, Length <- [daily |-> 2, weekly |-> 3, monthly |-> 4],
    DefaultLimits <- Both([daily |-> 2, weekly |-> 3, monthly |-> 4]),
    DefaultGlobal <- [daily |-> 3, weekly |-> 6], DefaultCooldown <- 1,
    LimitChoices <- {[value |-> [daily |-> 1, weekly |-> 2, monthly |-> 2],
                      count |-> [daily |-> 1, weekly |-> 2, monthly |-> 3]]},
    GlobalChoices <- {[daily |-> 1, weekly |-> 2]}, CooldownChoices <- {2}, RiskChoices <- {7000},
    AnomalyChoices <- {0, 8000}, ReductionChoices <- {5000}, Tenure <- 3, MaxHistory <- 2,
    Amounts <- {1, 2}, MaxUses <- 3, MaxChanges <- 1, MaxBreaches <- 1, MaxTrips <- 1,
    MaxNow <- 4,
    history <- usage_history
Breaker == INSTANCE CircuitBreaker WITH
    Address <- {"a", "b"}, Bridge <- {"x"}, Asset <- {"y"}, Threshold <- 2,
    MaxWhitelist <- 1, Alert <- {"supply"}, Triggers <- {"set"}, MaxPauses <- 2,
    MaxApprovals <- 2,
    guardians <- breaker_guardians, requests <- recovery_requests
Registry == INSTANCE AssetRegistry WITH
    Asset <- {"usdc", "eurc"}, Text <- {"text"}, Category <- {"Native"}, Rating <- {"Low"},
    Compliance <- {"Exempt"}, Link <- {"link"}, Kind <- {"chain"},
    MaxLinks <- [k \in {"chain"} |-> 1], MaxVersions <- 2, LastVersion <- 3,
    whitelist <- listed_for_use
Versions == INSTANCE AssetRegistry WITH
    Asset <- {"usdc"}, Text <- {"text"}, Category <- {"Native", "Wrapped"}, Rating <- {"Low"},
    Compliance <- {"Exempt"}, Link <- {"link"}, Kind <- {"chain", "pool"},
    MaxLinks <- [k \in {"chain", "pool"} |-> 1], MaxVersions <- 2, LastVersion <- 5,
    whitelist <- listed_for_use
Standing == INSTANCE Reputation WITH
    Entity <- {"a", "b"}, EntityType <- {"OracleNode"},
    Weights <- {<<30, 25, 20, 25>>, <<60, 60, 40, 40>>}, Readings <- {9500, 12000},
    Won <- {0}, Amounts <- {100}, HalfLife <- 1, YearLong <- 1, MaxHistory <- 1,
    MaxRecords <- 2, MaxNow <- 1,
    history <- performance, config <- reputation_config
Verifier == INSTANCE ReserveVerifier WITH
    Bridge <- {"bridge"}, Leaf <- {leaf1, leaf2},
    Tree <- {<<leaf1, leaf1, leaf2, leaf1>>}, Windows <- {0, 1}, SlashAmounts <- {-1, 2},
    MinStakes <- {-1, 2}, Stakes <- {2, 3}, MaxCommitments <- 2, MaxSlashes <- 3, MaxNow <- 2
Liquidity == INSTANCE LiquidityPool WITH
    Pool <- {"pool"}, Reserves <- {<<10, 10>>, <<10, 40>>, <<0, 3>>, <<40, 7>>},
    Volumes <- {3}, EntryPrices <- {0, 17, 50, 100, 350}, Precision <- 100, Baseline <- 50,
    MaxSnapshots <- 2, MaxBuckets <- 2, Day <- 2, MaxRecords <- 4, MaxNow <- 4,
    pools <- liquidity_pools

\* These values are among those the theorems of ContractsProofs, TransferProofs,
\* RelayProofs and BridgeAdminProofs are about.
ASSUME ContractsAssumption ==
    /\ Recovery!RecoveryConstants /\ Multisig!TreasuryConstants
    /\ Breaker!BreakerConstants /\ Verifier!VerifierConstants
    /\ Insurance!InsuranceConstants
    /\ Staking!FeesConstants /\ Rounds!FeesConstants
    /\ Limiter!LimiterConstants
    /\ Registry!RegistryConstants /\ Versions!RegistryConstants
    /\ Standing!ReputationConstants /\ Liquidity!LiquidityConstants
-----------------------------------------------------------------------------
\* Every contract starts as it is deployed; a choice of settings is explored only in a
\* behaviour of the contract that makes it.
CInit ==
    /\ contract \in {"recovery", "treasury", "insurance", "staking", "rounds",
                    "limiter", "breaker", "registry", "versions", "reputation", "reserves", "liquidity"}
    /\ Recovery!Init /\ Multisig!Init /\ Insurance!Init /\ Limiter!Init /\ Breaker!Init
    /\ Standing!Init /\ Verifier!Init /\ Liquidity!Init
    /\ IF contract = "staking" THEN Staking!Init ELSE Rounds!Init
    /\ IF contract = "versions" THEN Versions!Init ELSE Registry!Init
    /\ contract # "reputation" =>
          reputation_config = CHOOSE c \in Standing!Settings : TRUE
    /\ contract # "reserves" => settings = CHOOSE s \in Verifier!Settings : TRUE

CNext ==
    \/ /\ contract = "recovery" /\ Recovery!Next
       /\ UNCHANGED <<contract, treasuryVars, insuranceVars, feesVars, limiterVars,
          breakerVars, registryVars, reputationVars, reservesVars, liquidityVars>>
    \/ /\ contract = "treasury" /\ Multisig!Next
       /\ UNCHANGED <<contract, recoveryVars, insuranceVars, feesVars, limiterVars,
          breakerVars, registryVars, reputationVars, reservesVars, liquidityVars>>
    \/ /\ contract = "insurance" /\ Insurance!Next
       /\ UNCHANGED <<contract, recoveryVars, treasuryVars, feesVars, limiterVars,
          breakerVars, registryVars, reputationVars, reservesVars, liquidityVars>>
    \/ /\ contract = "staking" /\ Staking!Next
       /\ UNCHANGED <<contract, recoveryVars, treasuryVars, insuranceVars, limiterVars,
          breakerVars, registryVars, reputationVars, reservesVars, liquidityVars>>
    \/ /\ contract = "rounds" /\ Rounds!Next
       /\ UNCHANGED <<contract, recoveryVars, treasuryVars, insuranceVars, limiterVars,
          breakerVars, registryVars, reputationVars, reservesVars, liquidityVars>>
    \/ /\ contract = "limiter" /\ Limiter!Next
       /\ UNCHANGED <<contract, recoveryVars, treasuryVars, insuranceVars, feesVars,
          breakerVars, registryVars, reputationVars, reservesVars, liquidityVars>>
    \/ /\ contract = "breaker" /\ Breaker!Next
       /\ UNCHANGED <<contract, now, recoveryVars, treasuryVars, insuranceVars,
          feesVars, limiterVars, registryVars, reputationVars, reservesVars,
          liquidityVars>>
    \/ /\ contract = "registry" /\ Registry!Next
       /\ UNCHANGED <<contract, now, recoveryVars, treasuryVars, insuranceVars,
          feesVars, limiterVars, breakerVars, reputationVars, reservesVars,
          liquidityVars>>
    \/ /\ contract = "versions" /\ Versions!Next
       /\ UNCHANGED <<contract, now, recoveryVars, treasuryVars, insuranceVars,
          feesVars, limiterVars, breakerVars, reputationVars, reservesVars,
          liquidityVars>>
    \/ /\ contract = "reputation" /\ Standing!Next
       /\ UNCHANGED <<contract, recoveryVars, treasuryVars, insuranceVars, feesVars,
          limiterVars, breakerVars, registryVars, reservesVars, liquidityVars>>
    \/ /\ contract = "reserves" /\ Verifier!Next
       /\ UNCHANGED <<contract, recoveryVars, treasuryVars, insuranceVars, feesVars,
          limiterVars, breakerVars, registryVars, reputationVars, liquidityVars>>
    \/ /\ contract = "liquidity" /\ Liquidity!Next
       /\ UNCHANGED <<contract, recoveryVars, treasuryVars, insuranceVars, feesVars,
          limiterVars, breakerVars, registryVars, reputationVars, reservesVars>>

allVars ==
    <<contract, now, recoveryVars, treasuryVars, insuranceVars, feesVars, limiterVars,
      breakerVars, registryVars, reputationVars, reservesVars, liquidityVars>>

CSpec == CInit /\ [][CNext]_allVars
-----------------------------------------------------------------------------
\* Each variable of each contract holds values of its type.
TypesOK ==
    /\ contract = "recovery" => Recovery!TypeOK
    /\ contract = "treasury" => Multisig!TypeOK
    /\ contract = "insurance" => Insurance!TypeOK
    /\ contract = "staking" => Staking!TypeOK
    /\ contract = "rounds" => Rounds!TypeOK
    /\ contract = "limiter" => Limiter!TypeOK
    /\ contract = "breaker" => Breaker!TypeOK
    /\ contract = "registry" => Registry!TypeOK
    /\ contract = "versions" => Versions!TypeOK
    /\ contract = "reputation" => Standing!TypeOK
    /\ contract = "reserves" => Verifier!TypeOK
    /\ contract = "liquidity" => Liquidity!TypeOK

\* Totals agree with what they total, in every contract that keeps one: recoveries
\* with the tokens that left, the pool's liquidity with stakes, queue and claims, fees with
\* rounds, shares and vesting, slashes with the commitments found wrong, the windows of
\* the rate limiter with what was spent since they started; and no span as long as a
\* window ever holds more than twice a limit in force in it.
BooksBalance ==
    /\ contract = "recovery" => Recovery!RecoveryBooks
    /\ contract = "insurance" => Insurance!PoolBooks
    /\ contract = "staking" => Staking!FeesAccounted
    /\ contract = "rounds" => Rounds!FeesAccounted
    /\ contract = "limiter" => Limiter!WindowsTrue /\ Limiter!AtMostTwice
    /\ contract = "reserves" => Verifier!SlashesCounted

\* What is derived and stored agrees with what it is derived from, after any sequence of
\* calls: the registry's indexes and versions with the metadata, the leaderboards with who
\* is registered and, until a performance is reported, with the scores, badges with the
\* scores, rings and daily buckets with the snapshots recorded, and what is calculated
\* from them stays in its range.
RecordsAgree ==
    /\ contract = "registry" => Registry!IndexesTrue /\ Registry!HistoryTrue
    /\ contract = "versions" => Versions!IndexesTrue /\ Versions!HistoryTrue
    /\ contract = "reputation" => /\ Standing!BoardCounted /\ Standing!RowsTrue
                                 /\ Standing!BadgeOfScore
    /\ contract = "liquidity" => /\ Liquidity!HistoryFaithful /\ Liquidity!DaysTrue
                                /\ Liquidity!CalculationsBounded

\* Approvals decide what they were given for: the treasury's transactions by their
\* signatures, with a threshold its signers can reach, the recovery requests of pauses
\* still in force, and a proof verified against a commitment by the leaf at its place.
DecisionsCounted ==
    /\ contract = "treasury" => Multisig!SignaturesDecide /\ Multisig!ThresholdReachable
    /\ contract = "breaker" => Breaker!RequestsLive
    /\ contract = "reserves" => Verifier!ProofSound

\* The stakers of fees and of the insurance pool earn by rounds and premiums, by no more
\* than their share of the stake, and lose nothing by what others do.
SharesFair ==
    /\ Insurance!EarnedFromPremiums
    /\ [][/\ contract = "staking" => Staking!FairShare
          /\ contract = "rounds" => Rounds!FairShare]_allVars

\* Nothing is decided without the approvals it needs: recoveries implement approved
\* actions, a transaction of the treasury gains signatures of signers only, a scope that
\* was paused and no longer is was covered by a request with its approvals.
ApprovalsRequired ==
    /\ Recovery!RecoveriesApproved
    /\ Multisig!SignedBySigners
    /\ Breaker!LiftedByApproval

\* A deprecated asset never comes back, by no detour of status changes.
DeprecatedFinal ==
    [][/\ contract = "registry" => Registry!DeprecatedFinal
       /\ contract = "versions" => Versions!DeprecatedFinal]_allVars

\* The documentation calls the treasury one of "proposal, signature collection, and
\* execution".  It never executes a transaction that has its signatures.
SignedCanExecute == contract = "treasury" => Multisig!SignedCanExecute
=============================================================================
