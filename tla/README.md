# Verification of the Swipely contracts

TLA+ specifications of the Soroban contracts of this repository, the TLC runs that
check them on small instances and the theorems TLAPS proves about them for every
instance. Paths below are relative to the repository's root.

## How a contract is modelled

A Soroban call runs alone and is atomic: when it panics or returns an error, all its
writes are rolled back. So **one call is one action**. Its early returns and
assertions are the conjuncts of the guard, the address whose signature `require_auth`
asks for is the parameter `caller`, and a refused call is a step that does not happen.
Two things make this less simple than it sounds, and are modelled:

* a caller may catch the error of an inner call, and then what the inner call wrote
  stays. `batch_relay` does (`Relay!BatchRelay`);
* a call may make several changes in a loop, each reading what the one before wrote.
  `batch_release`, `rollback_transfer`, the bulk grants.

Time is the ledger's timestamp: a variable `now` that an action of its own, `Tick`,
moves on. Amounts and counters are integers; where the code saturates or checks
(`lock_until`, `expiry`, deadlines, fee products) the model does the same at constants
`U64Max`, `I128Max`, which the runs set to small numbers so that the edge is reached.
Strings, hashes, signatures and events are left out, or are model values.

What is hard in these contracts is not threads but **order**: several authorities
(administrator, guardian, approvers, operators, anyone) call in any order and at any
time; configuration changes while something that was computed from it is pending;
windows open and close in the same second; values are copied when a proposal, a
dispute or a delegation begins and go stale.

## Inventory

The crates: `escrow_contract`, `transfer_state_machine` and `soroban`. The last one
deploys `BridgeWatchContract` (`lib.rs`) and `EmergencyFundRecovery`; `acl`,
`operator_rotation`, `liquidity_pool`, `migration`, `source_trust` and others are modules
that `lib.rs` or the tests call; `relay`, `governance`, `multisig_treasury`,
`rate_limiter`, `circuit_breaker`, `insurance_pool`, `asset_registry` and others are
contracts compiled for tests; `fee_distribution`, `bridge_reserve_verifier`,
`alert_system` and seven more files are not referenced by the crate
(`soroban/docs/API_REFERENCE.md`).

| Component | State | Operations | Hard behaviour | What makes it correct | Modelled |
|---|---|---|---|---|---|
| Escrow (`escrow_contract/src/lib.rs`) | escrows, challenges, disputes, fees, approvers, pause, breaker | create, verify, challenge, vote, release, batch, refund, extend, recover, configure | partial releases, a panel replaced during a dispute, two switches, recovery | a deposit is paid exactly, and once by releases and refunds; disputes end by quorum; switches stop every payment | `Escrow`, `Settlement` |
| Transfer state machine (`transfer_state_machine/src/lib.rs`) | transfers, history, timeouts, the three contracts | initiate, advance, time out, roll back, override, results, auto progress | timeouts against answers, overrides, a full history | an unbroken log, no release without lock, proof and oracle; finals are final; nobody is stranded while the log has room | `TransferStateMachine` |
| Relay (`soroban/src/relay/mod.rs`) | messages, queue, nonces, operators, chains, totals | send, verify, relay, batch, clean up, configure | expiry, partly failing batches, priority, replays | relayed at most once, nothing lost from the queue, totals that agree, a queue that drains | `Relay` |
| Governing calls of BridgeWatch (`soroban/src/lib.rs`) | administrator, roles, pause, pending handover, pending upgrade, history | grant, revoke, pause, unpause, propose, accept, cancel, approve, execute | handover, upgrade and pause interleaved; stale approvals | roles agree, timelocks hold, rollbacks restore, a handover freezes | `BridgeAdmin` |
| Access control (`soroban/src/acl.rs`) | grants with an expiry | grant, revoke, single and bulk | expiry while in use, duplicate entries | nothing is gained while paused or by time | `AccessControl` |
| Operator rotation (`soroban/src/operator_rotation.rs`) | operators, one pending rotation, timing | add, remove, configure, propose, execute, cancel | direct calls beside a pending rotation, stale rotation | there is always an operator; a rotation ends whole, in its window | `OperatorRotation` |
| Governance (`soroban/src/governance.rs`) | powers, delegations, proposals, votes, guardians | set power, delegate, propose, vote, finalize, queue, execute, guardians' path | power that changes while delegated, configuration changed during a vote | the tally is the sum of the ballots; only a proposal whose vote reached quorum and threshold, or an approved emergency, executes | `Governance` |
| Assets and submissions (`soroban/src/lib.rs` 1323-2150, 3160-3460, 6013) | assets, locks, health, prices, sources, limits, expiry | register, pause, lock, deregister, submit, batch, sweep | checks repeated by every kind of submission, sweeps of expired records | a paused or deregistered asset is not written; the lock agrees with its history | `AssetMonitor`, `MonitorBase` |
| Signers (`lib.rs` 1572-1897) | signers, nonces, cache of verified payloads | register, remove, verify, submit signed | replays, a cache that outlives signers and thresholds | each nonce counts once, the cache answers only for a payload somebody signed | `Signers` |
| Retention and archive (`lib.rs` 2675-2900, 4300-4500, 6573-6900) | records of bridges, pairs and checkpoints, policies, archive | record, clean up, override | budgets, clean-ups at the end of a call, the latest record | nothing leaves before it is due, is lost or kept twice | `Retention` |
| Checkpoints (`lib.rs` 6260-6500, 7066-7225) | snapshots and their list | create, restore, automatic | pruning by number and by age, a restore makes a checkpoint | list and snapshots agree, a restore is exact | `AssetMonitor` |
| Emergency fund recovery | recoveries, authorizers | initiate, approve, execute, cancel, enable | second initialization, switch against timelock | executed once, approved, after its timelock | `FundRecovery`, `ApprovedAction` |
| Treasury (`multisig_treasury.rs`) | transactions, signers, limits | propose, sign, execute, cancel | status Approved against Pending, signatures of removed signers | signatures decide, the threshold can be reached | `Treasury` |
| Circuit breaker | guardians, pauses, requests | pause, request, approve, lift | requests that outlive pauses | a pause is lifted by its approvals | `CircuitBreaker` |
| Rate limiter | windows per user and global, risk, history | consume, configure | boundaries of windows, refused uses that still write | what a window counts was spent in it; at most twice a limit in its span | `RateLimiter` |
| Insurance pool, fee distribution | shares, rewards per share, claims, vesting | stake, distribute, claim, withdraw | stakes that change between payments, rounding | books balance, nobody earns more than his share | `InsurancePool`, `FeeDistribution` |
| Reserve verifier | commitments, stakes | commit, verify, challenge, slash | challenge windows, place in the tree | slashes are counted once, proofs are sound | `ReserveVerifier` |
| Reputation, registry, liquidity pools | scores, boards; metadata, indexes, versions; rings | register, record, decay; update; record | derived state kept beside its source | derived state agrees with what it is derived from | `Reputation`, `AssetRegistry`, `LiquidityPool` |
| Recovery mode, replay log, migration, thresholds, analytics, metadata, queries | one record per call, or pure reads and arithmetic | | rounding, bounds of lists | | not modelled |

Interactions: the escrow trusts its `verification_contract` and the approvers; the
state machine trusts three integration contracts (the administrator stands for them until
they are set); the relay moves messages between chains, its operators sign; in BridgeWatch the
administrator, the roles, the access control lists and the pause guard nearly every call, and
an access control permission lets its holder cancel an operator rotation. The crates do not
call each other: the amounts the escrow returns are paid by its caller, executing a
governance proposal only records it. So they are composed only where state is shared:
`OperatorRotation` EXTENDS `AccessControl`; `AssetMonitor` EXTENDS `Retention` and
`Signers`, which share `MonitorBase`. `Escrow` refines `Settlement`; `FundRecovery` and the
upgrades of `BridgeAdmin` refine `ApprovedAction`.

## Modules

* **Settlement** – the abstract promise about one deposit: `fresh`, `frozen` by a challenge,
  `cleared` by the panel, `closed`; what is owed only shrinks and what is paid comes out of it.
* **Escrow** – the contract. `paid` and `collected` are ledgers of what it told its callers to
  transfer; no action reads them. `Stage` and `Owed` map it to `Settlement`.
* **TransferStateMachine** – `FreeEdges` and `TransitionAllowed` are the transition table,
  `AdvanceAuth` who may take an edge, `ApplyTransition` the common tail of every call (deadline,
  history). `overridden` is a history variable: transfers the administrator moved by hand.
* **Relay** – `RelayAll` is the effect of relaying; `BatchRelay` marks expired messages and
  keeps the marks though the items failed. `order` of a message and `relays` are history.
* **BridgeAdmin** – the four groups `AssignRoles`, `Pause`, `Handover`, `Upgrade`.
* **AccessControl**, **OperatorRotation** – grants as a function from holder and role or
  permission to an expiry; the pending rotation as a set of at most one record.
* **Governance** – `Withdrawn` is `remove_delegation_internal`, `Count` the body of a vote,
  `Isqrt` the Newton iteration. Two parts are history: `disturbed`, delegatees of a voter whose
  power was set while delegated, and `basis`, the supply and the thresholds a proposal was decided
  upon, which `ExecutionJustified` judges its tally by.
* **ApprovedAction** – the abstract promise of the calls that several accounts decide: an action
  runs once per proposal, with the votes it needs, not before its time. `FundRecovery!Approved`
  and `BridgeAdmin!Approved` are the mappings; a rollback or an emergency is a proposal too.
* **FundRecovery**, **Treasury**, **CircuitBreaker**, **RateLimiter**, **InsurancePool**,
  **FeeDistribution**, **ReserveVerifier**, **Reputation**, **AssetRegistry**, **LiquidityPool** –
  a contract each, one action per call; its header says what it leaves out. `payments`,
  `spent`, `direct_slashes`, `log` and the like are history variables that no action reads.
  `Reputation!Rewritten` stores the history over the record, as the code does, and then cannot
  read the record: `ApplyPenalty` and `GrantReward` are never enabled.
* **MonitorBase** – clock, pause, rate limit and permissions that the monitoring calls share. Who
  holds the access control permission `ManageConfig` is a constant (`ConfigManagers`), as grants
  are modelled in **AccessControl**.
  **Signers** – verification of signatures as an operator on the ledger of signers
  (`Verified`), so that a signed submission verifies and writes in one action. **Retention** – the
  three kinds of historical records and one clean-up loop, `CleanedKey`, for all of them; each
  kind of record has its own time to live (`ExpirationPolicy`).
  **AssetMonitor** – assets, submissions, sweep and checkpoints over these; the clean-up and the
  checkpoint a call ends with are part of its action (`AutoCleaned`, `AutoCheckpoint`).
* **MC...** – model values and the constants a `.cfg` cannot write. `MCContracts` and `MCMonitor` also put
  together parts that share no state: see below.
* **EscrowProofs**, **TransferProofs**, **RelayProofs**, **BridgeAdminProofs**, **RotationProofs**,
  **GovernanceProofs** – theorems about one of the modules above each, TransferProofs about the rate
  limiter as well, RelayProofs about the reputation system, RotationProofs about the asset
  monitor, BridgeAdminProofs about the liquidity pools; **ContractsProofs** about the other seven
  contracts that stand alone, each an instance with its own constants; **SumTheorems** the lemmas
  on sums, folds and roots that they share.

Definitions named `X_Y` are mutants of `X`, each with a comment: a plausible slip in that
code, kept to show that the property listed with it in PROJECT.json can fail.

## Runs

| Run | Shows | Bounds, and why they are enough |
|---|---|---|
| `escrow_settle` | `ExactSettlement`, `RefundJustified`, `SettlementGated`, `BatchIsSequence`, refinement `KeepsPromise` | 2 escrows of 5 with a fee of 20%, payments of 2 (two releases leave nothing, a recovery can take the fee), batches of 2 ids, which may be equal, clock to 2 with saturation |
| `escrow_dispute` | `DisputeQuorum`, `DecisionStable`, `FundsConserved` | 1 escrow of 10 with a fee of 0 or 20% (the product just fits the largest i128), payments of 4 (two close the escrow), fees collected one by one; a panel of three and one that lists an approver twice, every threshold, so that a dispute outlives a change of the threshold; recoveries before and after releases and refunds |
| `transfer` | `AuditTrail`, `ReleaseCleared`, `FinalForever`, `NeverStranded` | 1 transfer (transfers share nothing but settings), history of 7 instead of 48: enough for the whole standard path and for it to fill up |
| `relay` | `QueueFaithful`, `QueueOrdered`, `RelayBooks`, `QueueDrains` | 3 messages of one sender, 2 priorities, lifetimes of 1 and 2, one operator, batches of any of them with good or bad signatures, clean-ups of 0, 1 and all |
| `bridge_admin` | `RolesAgree`, `UpgradeTrail`, `TwoPersonEmergency`, `HandoverFreezes`, `PauseHeld`, refinement `UpgradesByApproval` | 3 accounts, so thresholds 1 to 3; 3 proposals: upgrade, upgrade, rollback; timelocks of 2, clock to 3 |
| `governance` | `PowerAccounted`, `BallotsCounted`, `ExecutionJustified`, `VoteClosed` | 2 voters with powers 0 or 3 who delegate in any order, one proposal, linear then quadratic votes, a quorum of 60% that one voter alone misses once the supply is 6, clock to 3 |
| `contracts` | `TypesOK`, `BooksBalance`, `RecordsAgree`, `DecisionsCounted`, `SharesFair`, `ApprovalsRequired` (with the refinement of `ApprovedAction` by the recoveries), `DeprecatedFinal` | each contract by itself, next table |
| `monitor` | `TypesOK`, `SomeoneOperates`, `RotationWhole`, `NothingGainedQuietly`, `RecordsTrue`, `SignaturesTrue`, `StepsJustified` | rotation: 2 operators, 2 administrators in turn, one role and two permissions, bulk calls of up to 2 entries, clock to 3; monitoring: next table |

`contracts` and `monitor` check parts that share no state and never call each other. An initial
state names the part (`contract`, `part`) whose behaviour it starts; the others stand
still, so the run explores the sum of the parts' state spaces and not their product, and a
property is the conjunction of what it means for each part. The fee distribution, the
registry and the asset monitor appear several times, each time with the constants that
make one kind of case happen.

| Part | Bounds, and why they are enough |
|---|---|
| fund recovery | 2 recoveries of 3 out of 5 tokens, so that the second cannot be paid; two addresses with different rights; a second initialization |
| treasury | 2 of 3 accounts sign, the third joins; 1 transaction, of an amount above or below the spending limit |
| insurance pool | 2 stakers of 10, one claim, one withdrawal, premiums between them |
| staking, rounds | 2 stakers of 1 or 2 and two rounds, remainders included; automatic rounds, one vesting schedule with a cliff, an emergency withdrawal |
| rate limiter | 1 user, windows of 2, 3 and 4 seconds that end at different times, 3 uses, one change of any setting |
| circuit breaker | 2 guardians, 2 pauses over 3 scopes, 2 approvals of a threshold of 2 |
| registry, versions | 2 assets that share indexes; 1 asset with more versions than are kept |
| reputation | 2 entities on one board, weights of 100% and of 200%, readings below and above the scale; the rows of the board are compared with the records of entities without a report, see below |
| reserves | a tree of 4 leaves with repetitions, 2 commitments, a stake that falls below the minimum, amounts of -1 that `initialize` takes and `update_config` refuses |
| liquidity | a ring and a list of days of 2, so that both are partly full, just full and wrapped within 4 snapshots; pools that are empty, even and lopsided |
| assets | 1 asset, 2 submitters, locks, pauses, trusted sources |
| expiry | health that expires at once and prices a second later, so that a sweep takes one and leaves the other, sweeps of 2, one call per second allowed |
| signed | 2 signers, nonces to 1, a threshold of 1 or 2, one payload |
| bridges, pairs | 2 or 3 records of a bridge and of a pair, with and without archive, budgets of 1 |
| checkpoints | 3 checkpoints, limits of 1 and 2, a retention of 1 second, restores |

Deadlock is not checked: every instance stops at its bounds (clock, ids), and a contract
that nobody calls is idle, not stuck.

Four runs expect a violation. Each checks one sentence the repository writes about the code:

* `escrow_double_payout`: the fuzz test's "no operation ever paying out twice for the same
  escrow". Refund, then `emergency_recover`, which does not look at the status.
* `bridge_pause_writes`: under the emergency pause "all write operations will panic". Handover
  and upgrade calls do not ask for the pause.
* `governance_stale_power`: "Effective power = own power (if not delegated away) + power
  delegated to this address". `set_voting_power` leaves the delegatee's sum as it was.
* `treasury_execution`: "N-of-M multisig treasury: proposal, signature collection, and
  execution". Enough signatures make a transaction Approved, and `execute_transaction`
  asks for Pending and for the signatures.

Further places where the code and its texts part, met while modelling and followed in
the models, without a run of their own:

* `advance_state` takes the edge to `TimedOut` before the deadline, though `TimedOut` is "stuck
  beyond configured deadline" (`transfer_state_machine/src/lib.rs:69`, `:271`).
* `submit_health_batch` and `submit_calculated_health` do not look at the lock of an asset;
  `soroban/docs/ASSET_LOCKING.md:20` lists the first among the calls a lock blocks.
* An asset deregistered while locked cannot be unlocked (`soroban/src/lib.rs:2093`).
* `set_asset_expiration_ttl` stores a value nothing reads (`soroban/src/lib.rs:3173`).
* `apply_penalty` and `grant_reward` store the history of an entity under the key of its
  reputation (`soroban/src/reputation_system.rs:428`), and fail.
* `record_performance` changes a score and not its row on the leaderboard, which keeps the old one
  until a decay changes the score again (`soroban/src/reputation_system.rs:276`). `RecordsAgree` therefore
  compares a row with its record only while no performance is on record.
* One genuine signature puts a payload into the cache, whatever the threshold
  (`soroban/src/lib.rs:1715`), and `verify_multi_sig` then looks at no signature (`:1671-1683`).
  `SignaturesTrue` says what is left: nonces rise, and something genuine came first.
* `initialize` of the reserve verifier takes negative amounts, which `update_config` refuses
  (`soroban/src/bridge_reserve_verifier.rs:139`); a negative slash raises the stake.
* The category, the links and the white listing of a deprecated asset may still be changed
  (`soroban/src/asset_registry.rs:543`, `:887`, `:1080`), its texts not; `DeprecatedFinal` is about its
  status.
* A transfer whose history is full can take no further step, a timeout neither
  (`transfer_state_machine/src/lib.rs:690`). `NeverStranded` leaves full histories and transfers that are
  rolling back out: it does not say that those end.
* One guardian of the circuit breaker may approve a recovery request several times
  (`soroban/src/circuit_breaker.rs:411`).

### Fairness

Only two runs state a liveness property. `Relay!FairSpec`: time passes (`WF(Tick)`) and
somebody goes on calling `cleanup_expired_messages` with room for all messages; the call needs
no permission. A clean-up of one message alone would not do: a live message at the head of the
queue hides those behind it (hazard at `relay/mod.rs:459`); no operator is assumed to
relay. `TransferStateMachine!FairSpec`: time passes and somebody calls `handle_timeout`, which
the code calls "permissionless liveness" (`transfer_state_machine/src/lib.rs:310`). Nothing is
assumed of administrators, approvers, voters or contracts.

## Proofs

Every theorem about a module is of the form `Spec => []P`, `Spec => [][A]_vars` or `Spec =>` a
refinement, for all constants that satisfy named assumptions: sets of addresses of any size,
any number of escrows, transfers, messages or proposals, any bounds. `MaxEscrows`, `MaxNow` and
their like are constants in the theorems, so these hold whatever the bound. The
assumptions are `EscrowAssumption`, `TransferAssumption` and so on in the modules; for the contracts
that stand alone they are hypotheses of the theorems (`RecoveryConstants`, `LimiterConstants`,
...), because one module makes several instances of them. They only give
the constants their types. TLC evaluates all of them on each run, those of the contracts in
`ContractsAssumption`. The type invariants that are theorems need no place in the runs.

The argument is an inductive invariant, `IInv` or `...Inv`: what is to be shown, and what it needs to
be inductive. One lemma per action says that it keeps it; lemmas that say how a record or an entry of a
sequence is replaced are stated once and cited by the actions.

* **SumTheorems** – The books of most contracts are sums over accounts, ids or records, and
  the library's induction theorems take an operator as a parameter, which the provers cannot
  instantiate. Here the property is a *set*: `NumberInduction` and `RemovalInduction` say
  that a set of numbers, or of subsets of a finite set, which has the first and with each the next
  has all of them. They rest on a theorem of the library without such a parameter, that
  inclusion of finite sets is well founded. From them follows what `SumFunctionOnSet` computes:
  empty set, one element more or less (`SumAdd`, `SumRemove`), one value changed
  (`SumChange`), monotony, sums of naturals, sums that count; and the same for any fold
  that goes through a finite set in a chosen order (`FoldTable`, `FoldTyped`). A sum of n numbers
  between two bounds is between n times each (`SumBetween`), so an average is between the least and
  the greatest. `NewtonRootIsRoot` says that Newton's iteration from above ends in the
  square root rounded down: a guess that is not the root is followed by a smaller one that is no
  less than the root. Governance and the liquidity pools each have the loop.
* **EscrowProofs** – `TypeOK`, `ExactSettlement`, `DisputeQuorum`, `RefundJustified`, `FundsConserved`,
  `DecisionStable`, `SettlementGated`, `BatchIsSequence`, and the refinement `KeepsPromise`. `IInv`
  adds, for every id, that an id the counter has not reached has no record, payout,
  dispute or challenge (`Unused`, so a new escrow starts clean), and that a challenged
  escrow is among the challenged ids (`ChallengeRecorded`, which refusing the second challenge
  rests on). That a new escrow owes something is `FeeBelowDeposit`: at a rate of at most 20%
  the fee, rounded down, is less than the deposit. `FundsConserved` also needs that each fee is
  collected once (`FeesAccounted`). It bounds releases, refunds and fees by what was deposited, and
  releases and recoveries; the three kinds of payout together are not bounded, which
  `escrow_double_payout` shows. A batch is the fold of single releases, by induction on its
  places. The refinement takes each action to a step of `Settlement` for its ids or to a stutter;
  a batch pays several ids at once, so `Settlement!Pay` is stated for a set of ids.
* **TransferProofs** – `TypeOK`, `AuditTrail`, `ReleaseCleared`, `FinalForever`. `ReleaseCleared`
  is inductive only with what the stages before release guarantee: whoever is past
  `EscrowLocked` has it in the log, whoever is past verification carries the flag, unless
  overridden.
  The second part is about the rate limiter: `TypeOK`, `WindowsTrue` and `AtMostTwice`. What was
  spent is the sequence of all allowed transfers, and what a counter should hold is a sum over the
  places whose user and time match. `WindowOK` says that a window holds that sum, that
  no use is later than its end, and that it is *covered*: it is at most the limit in force at one of its
  uses, which is no earlier than any given one; and the same of what was spent, in a span shorter than the window,
  before the window started. So a span as long as a window is cut in two where the window in it
  starts, and each part is within one limit (`SpanCovered`, `TwoLimitsUsed`). The windows restart
  each by itself, so this is kept per window and user; a use of another user leaves it
  (`OtherSpent`). The rows of the history need that days are multiples of the length of a day
  (`EarlierMultiple`), the limits that every factor is a number and no limit below one
  (`LimitsNumbers`).
* **RelayProofs** – `TypeOK`, `QueueFaithful`, `QueueOrdered`, `RelayBooks`. Lemmas on the two recursive
  functions come first: `Without` keeps exactly the entries not removed, in their order, and
  `InsertByPriority` puts an id behind all of its priority and before the lower ones. The
  invariant adds `Recorded` (an id is sent when its number is below the sender's nonce, and what was
  not sent was never relayed) and `OperatorsKnown` (who is not registered has relayed nothing). The
  books then follow message by message, for a batch with `SumRaised`.
  The second part is about the reputation system: `TypeOK`, `BoardCounted` and `BadgeOfScore`.
  `ReputationInv` says of each board
  that it lists registered entities of its own type, each once, and that its counter is its length.
  The factor of a decay is a number whatever the count of halvings (`DecayNumber`); a
  badge is recomputed by every call that moves the score, except that a decay that leaves the score
  leaves the record. Penalties and rewards are shown never to be enabled (`NeverRewritten`), as the
  record they read back is the history.
* **GovernanceProofs** – `Isqrt` is the square root rounded down for every number (its recursion
  is unfolded into that of `NewtonRoot`); `TypeOK`, `PowerAccounted`, `BallotsCounted`,
  `ExecutionJustified`, `VoteClosed`. The invariant adds that ids not yet given have no
  proposal and no vote (`Unborn`), that a proposal whose vote is open or won has reached its start
  (`Begun`), and that one that passed or waits in the queue is won and has its end behind it
  (`Decided`); the two action properties then follow from what one call does to one proposal. *Won* is said without
  division: the votes times 10000 reach the quorum times the supply of the moment of the decision, and
  those in favour the threshold times those decided. `PowerAccounted` says nothing of
  the delegatees that `disturbed` names; `WithdrawnLeaves` is what one delegation less takes away.
* **BridgeAdminProofs** – `TypeOK`, `RolesAgree`, `UpgradeTrail`, `TwoPersonEmergency`,
  `HandoverFreezes`, `PauseHeld`, and the refinement `UpgradesByApproval`. The trail needs the
  rollback target to be the code before the last row, and the pending rollback to name it
  (`TargetTracked`, `ProposalSound`); the two-person rule needs the approvals to be without
  repetition and an emergency's threshold to be at least two, and every other proposal to wait
  for the normal timelock; the pause needs `PauseTimed`, that the earliest unpausing is counted
  from the last trigger.
  The second part is the monitor of liquidity pools: `TypeOK`, `HistoryFaithful`, `DaysTrue`,
  `CalculationsBounded`. A ring of m slots holds the newest of the entries of a sequence when entry i
  is in slot i - 1 modulo m until entry i + m replaces it (`RingOf`); a push keeps that, and walking
  from the head gives the newest entries in order, by lemmas on remainders. The invariant
  (`PoolKept`) is that the ring of a pool is that of its log, and that there *is* a sequence of days,
  rising, each true to the snapshots of its day and the last the day of the last snapshot, whose ring
  the daily ring is; days that fell out of the ring are still in that sequence. A snapshot of the
  last day changes its bucket by one sum, one of a later day leaves all the others, because the
  clock does not run back (`Ordered`).
* **RotationProofs** – `TypeOK`, `SomeoneOperates`, `RotationWhole`, `NothingGainedQuietly`, from an
  invariant with at most one pending rotation. The bulk calls are folds over their entries: an
  account ends with the last grant that names it (`LastGrantStays`, `RevokedStays`), by
  induction on the places.
  The second part is the whole of the asset monitor, assuming of the constants only
  `MonitorConstants`: `TypeOK`, `SignaturesOnce` and `CacheEarned`, `RecordsTrue` with its four
  parts, `DeletedDue` and `InactiveUntouched`. Every step is first reduced to what it does to
  signers, locks and checkpoints (`StepMoves`) and to the readings, settings and records
  (`StepWrites`). `CacheEarned` says that before any signature taken without being genuine a genuine one
  for the same payload was taken; that enough signers verified it is not true of the code. `DeletedDue`
  asks of a record that leaves its list what its way out asks: past its time to live for the sweep, which
  archives nothing, past its retention for a clean-up, archived if the policy says so; the lock of an
  asset is in neither part of `StepsJustified`. A verified signature keeps a sound book sound or spoils it (`VerifiedSound`), so
  any number of them does (`ManySound`). A clean-up is a fold over kinds of folds over keys; each
  of its rounds takes one list to a shorter one, and what a list and its archive hold before and
  after one round is a relation that composes, so it holds after all of them. The records need that they are
  filed in rising numbers, all below the next one to be given, under keys of their kind; a record then
  is in one list or archive at most, whatever is swept meanwhile. The list of checkpoints is
  swept with the snapshots it names, and is cut to its maximum from the oldest on. Exact restores
  need that a checkpoint is restored from an earlier number and that no number is used twice;
  that an inactive asset is left alone needs that only listed assets have readings.
* **ContractsProofs** – of the properties that the run `contracts` checks together:
  `TypeOK` of the seven contracts; `RecoveryBooks`, `SlashesCounted`, `PoolBooks`, `FeesAccounted` (of
  `BooksBalance`); `SignaturesDecide`, `ThresholdReachable`, `RequestsLive`, `ProofSound` (all of
  `DecisionsCounted`); all of `ApprovalsRequired`, with the refinement `RecoveriesApproved`; all of `SharesFair`. The
  insurance and fee books are kept up with the sums of `SumTheorems`, one record at a time. That nobody gains by
  another's stake, claim or withdrawal rests on `QuotientGrows`: what is added to a dividend
  adds to the quotient at most its own quotient, rounded up; and on `FeesInv`, that a token
  not yet registered has accumulated nothing. One clause of `FeesAccounted`, that governance has the
  stakers' share as long as nothing is accumulated for stakers, needs the stake to be at most
  `Precision`, which the code does not enforce: beyond it the share of a round can be lost to
  rounding. `FeesStayBooked` says the rest for any stake, and that clause under that condition.
  Of the registry, `IndexesTrue` and `HistoryTrue` (of `RecordsAgree`) and `DeprecatedFinal`.
  Each list is compared with the records it is drawn from; what leaving a list takes away is
  shown place by place over the loop of `remove_from_index` (`LoopTable`, `WithoutOne`), and
  what `save_with_version` keeps by whether the oldest version falls out (`KeptNext`).
  `ProofSound` is about trees of four leaves and needs no invariant: a proof of two siblings is
  climbed in two steps (`ClimbOfTwo`), hashes are equal only if what is hashed is, so two bits of the
  index lead to the leaf at its place (`LeafNamed`).

Only model-checked:

* `NeverStranded` and `QueueDrains`: liveness under fairness, for which there is no prover here.
* That the parts put together by `MCContracts` and `MCMonitor` are right as composed: `TypesOK`,
  `BooksBalance`, `RecordsAgree`, `DecisionsCounted` and the like are conjunctions over contracts
  with the constants of one instance. Each of their conjuncts but one is a theorem about its contract, for
  all constants, `FeesAccounted` under the condition named above.
* `Reputation!RowsTrue`, that one: it needs that the rows kept of a reported history are never none, and
  those are chosen with `SelectSeq`, whose recursive definition the provers here do not unfold.
* Merkle proofs against trees of other heights than two are not in the model.

## Not modelled

Getters and events; the storage's time to live; the content of texts and their limits of
length; signature checks (a signature is genuine or not); integer overflow of `i128` sums that
panics (`overflow-checks = true` in release) and so refuses the call; calls before
`initialize`, which panic or, for BridgeWatch, a second `initialize`. The token contracts are
external: a balance that a failed transfer would overdraw refuses the call.

The components listed as not modelled in PROJECT.json are of two kinds. The configuration store,
recovery mode, replay log, blessings, priorities, migration, metadata and deprecation
write one record per call from their arguments; a model would repeat the code and
its properties the assignments. Statistics, analytics, ranking, hashing and queries compute from
records without changing them; `alert_system` and `rollup_flush` are not part of the crate.
Of the monitoring calls, the deviation alerts, watermarks and the critical-mismatch filter are
left out: they add fields to the records modelled and decide nothing about them.

## What could come next

The parts modelled in part: the deviation alerts and watermarks of the monitoring calls, and the
blessings of trusted sources. Trees of any height in `ReserveVerifier`. Liveness stays with TLC.
