---------------------------- MODULE InsurancePool ----------------------------
(***************************************************************************)
(* The insurance pool, soroban/src/insurance_pool.rs: stakers put          *)
(* liquidity into a pool, buyers of coverage pay premiums that the stakers *)
(* share, claims are verified, approved and paid out of the liquidity.     *)
(*                                                                         *)
(* A call is one action; a panic undoes its writes.  The pool record, the  *)
(* positions, the withdrawal requests and the claims are separate records  *)
(* that every call has to keep in step.  Premiums are shared by an         *)
(* accumulator: acc_premium_per_share grows with each premium, a position  *)
(* remembers in reward_debt what it would have earned before it joined.    *)
(*                                                                         *)
(* Abstracted: one pool, evidence hashes, the buyer, whom no record names. *)
(* No tokens move: the contract only keeps books.  i128 does not overflow  *)
(* at the amounts of a real pool.                                          *)
(***************************************************************************)
EXTENDS Integers, Sequences, FiniteSets, Functions, FiniteSetsExt

CONSTANTS
    Account, Admin,
    Approvals,          \* bound: approver lists, thresholds and delays
    Rates, Risks,       \* bound: premium rates and risk scores, in basis points
    Limits,             \* bound: claim limits
    DefaultLimits,      \* limits of a new pool
    DefaultDelay,       \* DEFAULT_WITHDRAW_DELAY_SECS
    Stakes, Coverages, ClaimAmounts, Slashes,   \* bound: amounts passed to the calls
    RewardScale,        \* REWARD_SCALE: shrunk, the checker's integers have 32 bits
    MaxStake,           \* bound: liquidity ever staked
    MaxClaims, MaxRequests, MaxNow

\* What the theorems suppose of the constants.
InsuranceConstants ==
    /\ IsFiniteSet(Account) /\ Admin \in Account
    /\ Approvals \subseteq [approvers : Seq(Account), threshold : Nat, delay : Nat]
    /\ Stakes \subseteq Int /\ Coverages \subseteq Int /\ ClaimAmounts \subseteq Int
    /\ Slashes \subseteq Nat /\ DefaultDelay \in Nat
    /\ RewardScale \in Nat \ {0}
    /\ MaxNow \in Nat /\ MaxClaims \in Nat /\ MaxRequests \in Nat

Bps == 10000
Tier == {"Conservative", "Balanced", "Aggressive"}
ClaimId == 0 .. MaxClaims - 1
RequestId == 0 .. MaxRequests - 1

VARIABLES
    now,
    governance,         \* approvers, approval_threshold, withdrawal_delay_secs
    pool, positions,
    claims, last_claim, requests

poolVars == <<governance, pool, positions, claims, last_claim, requests>>
vars == <<now, poolVars>>

NoPool == [rate |-> 0]
NewPool(rate, risk) ==
    [rate |-> rate, risk |-> risk, limits |-> DefaultLimits,
     total |-> 0, staked |-> 0, queued |-> 0, coverage |-> 0, acc |-> 0,
     collected |-> 0, paid |-> 0, paid_claims |-> 0, rejected_claims |-> 0]
NewPosition ==
    [staked |-> 0, pending |-> 0, reward_debt |-> 0, accrued |-> 0, claimed |-> 0,
     slashed |-> 0]

Created == pool # NoPool

Init ==
    /\ now = 0
    /\ governance = [approvers |-> <<Admin>>, threshold |-> 1, delay |-> DefaultDelay]
    /\ pool = NoPool
    /\ positions = [a \in Account |-> NewPosition]
    /\ claims = <<>>
    /\ last_claim = [a \in Account |-> 0]
    /\ requests = <<>>
-----------------------------------------------------------------------------
\* The administrator's calls.
ConfigureGovernance(g) ==
    /\ Len(g.approvers) > 0
    /\ g.threshold \in 1 .. Len(g.approvers)
    /\ governance' = g
    /\ UNCHANGED <<now, pool, positions, claims, last_claim, requests>>

CreatePool(rate, risk) ==
    /\ rate \in 1 .. 5000 /\ risk \in 0 .. Bps
    /\ pool' = IF Created THEN [pool EXCEPT !.rate = rate, !.risk = risk]
               ELSE NewPool(rate, risk)
    /\ UNCHANGED <<now, governance, positions, claims, last_claim, requests>>

SetRiskScore(risk) ==
    /\ Created
    /\ risk \in 0 .. Bps
    /\ pool' = [pool EXCEPT !.risk = risk]
    /\ UNCHANGED <<now, governance, positions, claims, last_claim, requests>>

ConfigureClaimLimits(limits) ==
    /\ Created
    /\ limits.amount >= 0 /\ limits.bps \in 0 .. Bps
    /\ pool' = [pool EXCEPT !.limits = limits]
    /\ UNCHANGED <<now, governance, positions, claims, last_claim, requests>>
-----------------------------------------------------------------------------
RewardDebt(staked) == (staked * pool.acc) \div RewardScale

Pending(p) == LET due == RewardDebt(p.staked) - p.reward_debt IN IF due > 0 THEN due ELSE 0

\* Mutant: what was earned before the stake changes is forgotten.
Restaked_Unsynced(p, amount) ==
    [p EXCEPT !.staked = @ + amount, !.reward_debt = RewardDebt(p.staked + amount)]

\* A position after sync_rewards, with its stake changed and its debt set anew.
Restaked(p, amount) ==
    [p EXCEPT !.staked = @ + amount, !.accrued = @ + Pending(p),
              !.reward_debt = RewardDebt(p.staked + amount)]

StakeLiquidity(who, amount) ==
    /\ Created
    /\ amount > 0
    /\ pool.total + pool.paid + amount <= MaxStake
    /\ positions' = [positions EXCEPT ![who] = Restaked(@, amount)]
    /\ pool' = [pool EXCEPT !.total = @ + amount, !.staked = @ + amount]
    /\ UNCHANGED <<now, governance, claims, last_claim, requests>>

RequestWithdrawal(who, amount) ==
    /\ Created
    /\ Len(requests) < MaxRequests
    /\ amount > 0
    /\ positions[who].staked >= amount
    /\ positions' = [positions EXCEPT
          ![who] = [Restaked(positions[who], -amount) EXCEPT !.pending = @ + amount]]
    /\ pool' = [pool EXCEPT !.staked = @ - amount, !.queued = @ + amount]
    /\ requests' = Append(requests,
          [staker |-> who, amount |-> amount, unlock_time |-> now + governance.delay,
           claimed |-> FALSE])
    /\ UNCHANGED <<now, governance, claims, last_claim>>

\* Mutant: the queue of the pool is left as it was.
ExecuteWithdrawal_Queued(who, k) ==
    LET amount == requests[k].amount
    IN  /\ requests[k].staker = who
        /\ ~requests[k].claimed
        /\ now >= requests[k].unlock_time
        /\ positions[who].pending >= amount
        /\ pool.total >= amount /\ pool.queued >= amount
        /\ positions' = [positions EXCEPT
              ![who] = [Restaked(positions[who], 0) EXCEPT !.pending = @ - amount]]
        /\ pool' = [pool EXCEPT !.total = @ - amount]
        /\ requests' = [requests EXCEPT ![k].claimed = TRUE]
        /\ UNCHANGED <<now, governance, claims, last_claim>>

ExecuteWithdrawal(who, k) ==
    LET amount == requests[k].amount
    IN  /\ requests[k].staker = who
        /\ ~requests[k].claimed
        /\ now >= requests[k].unlock_time
        /\ positions[who].pending >= amount
        /\ pool.total >= amount /\ pool.queued >= amount
        /\ positions' = [positions EXCEPT
              ![who] = [Restaked(positions[who], 0) EXCEPT !.pending = @ - amount]]
        /\ pool' = [pool EXCEPT !.total = @ - amount, !.queued = @ - amount]
        /\ requests' = [requests EXCEPT ![k].claimed = TRUE]
        /\ UNCHANGED <<now, governance, claims, last_claim>>

ClaimPremium(who) ==
    /\ Created
    /\ positions' = [positions EXCEPT ![who] =
          LET p == Restaked(@, 0)
          IN  [p EXCEPT !.accrued = 0, !.claimed = @ + p.accrued]]
    /\ UNCHANGED <<now, governance, pool, claims, last_claim, requests>>
-----------------------------------------------------------------------------
PremiumMultiplier(tier) ==
    CASE tier = "Conservative" -> 800 [] tier = "Balanced" -> 1000 [] tier = "Aggressive" -> 1400

CoverageCap(tier) ==
    CASE tier = "Conservative" -> 5000 [] tier = "Balanced" -> 7000 [] tier = "Aggressive" -> 8500

\* quote_premium.
Premium(amount, tier) ==
    LET base == (amount * pool.rate) \div Bps
    IN  ((base * (Bps + pool.risk) * PremiumMultiplier(tier)) \div Bps) \div Bps

\* The premium is taken at its quote, whatever more the buyer offered.
PurchaseCoverage(amount, tier) ==
    LET premium == Premium(amount, tier)
    IN  /\ Created
        /\ amount > 0
        /\ pool.coverage + amount <= (pool.staked * CoverageCap(tier)) \div Bps
        /\ pool' = [pool EXCEPT
              !.coverage = @ + amount, !.collected = @ + premium,
              !.acc = @ + (IF pool.staked > 0 THEN (premium * RewardScale) \div pool.staked
                           ELSE 0)]
        /\ UNCHANGED <<now, governance, positions, claims, last_claim, requests>>

WithinCaps(amount) ==
    /\ pool.limits.amount > 0 => amount <= pool.limits.amount
    /\ pool.limits.bps > 0 => amount <= (pool.total * pool.limits.bps) \div Bps

Rested(who) ==
    pool.limits.cooldown = 0 \/ last_claim[who] + pool.limits.cooldown <= now

SubmitClaim(who, amount) ==
    /\ Created
    /\ Len(claims) < MaxClaims
    /\ amount > 0
    /\ pool.coverage >= amount
    /\ WithinCaps(amount)
    /\ Rested(who)
    /\ last_claim' = [last_claim EXCEPT ![who] = now]
    /\ claims' = Append(claims,
          [claimant |-> who, amount |-> amount, status |-> "Submitted", approvals |-> {},
           slashed |-> 0])
    /\ UNCHANGED <<now, governance, pool, positions, requests>>

\* A valid claim goes on to the approvers; for an invalid one the claimant loses some
\* of the own stake.
VerifyClaim(k, is_valid, slash_bps) ==
    LET who == claims[k].claimant
        slashed == Min({(claims[k].amount * slash_bps) \div Bps, positions[who].staked})
    IN  /\ claims[k].status = "Submitted"
        /\ IF is_valid
           THEN /\ claims' = [claims EXCEPT ![k].status = "Verified"]
                /\ UNCHANGED <<pool, positions>>
           ELSE /\ slash_bps <= Bps
                /\ positions' = [positions EXCEPT
                      ![who] = [Restaked(positions[who], -slashed) EXCEPT !.slashed = @ + slashed]]
                /\ pool' = [pool EXCEPT !.staked = @ - slashed, !.total = @ - slashed,
                                        !.rejected_claims = @ + 1]
                /\ claims' = [claims EXCEPT ![k].status = "Rejected",
                                            ![k].slashed = slashed]
        /\ UNCHANGED <<now, governance, last_claim, requests>>

ApproveClaim(who, k) ==
    /\ who \in Range(governance.approvers)
    /\ claims[k].status \in {"Verified", "Approved"}
    /\ who \notin claims[k].approvals
    /\ claims' = [claims EXCEPT
          ![k].approvals = @ \cup {who},
          ![k].status = IF Cardinality(claims[k].approvals) + 1 >= governance.threshold
                        THEN "Approved" ELSE @]
    /\ UNCHANGED <<now, governance, pool, positions, last_claim, requests>>

\* What is paid leaves the liquidity of the pool and no position.
ExecutePayout(k) ==
    LET amount == claims[k].amount
    IN  /\ claims[k].status = "Approved"
        /\ pool.total >= amount /\ pool.coverage >= amount
        /\ pool' = [pool EXCEPT !.total = @ - amount, !.coverage = @ - amount,
                                !.paid = @ + amount, !.paid_claims = @ + 1]
        /\ claims' = [claims EXCEPT ![k].status = "Paid"]
        /\ UNCHANGED <<now, governance, positions, last_claim, requests>>

Tick ==
    /\ now < MaxNow
    /\ now' = now + 1
    /\ UNCHANGED poolVars

Next ==
    \/ \E g \in Approvals : ConfigureGovernance(g)
    \/ \E rate \in Rates, risk \in Risks : CreatePool(rate, risk)
    \/ \E risk \in Risks : SetRiskScore(risk)
    \/ \E limits \in Limits : ConfigureClaimLimits(limits)
    \/ \E who \in Account :
          \/ \E amount \in Stakes : StakeLiquidity(who, amount) \/ RequestWithdrawal(who, amount)
          \/ \E k \in DOMAIN requests : ExecuteWithdrawal(who, k)
          \/ ClaimPremium(who)
          \/ \E amount \in ClaimAmounts : SubmitClaim(who, amount)
          \/ \E k \in DOMAIN claims : ApproveClaim(who, k)
    \/ \E amount \in Coverages, tier \in Tier : PurchaseCoverage(amount, tier)
    \/ \E k \in DOMAIN claims :
          \/ \E valid \in BOOLEAN, slash \in Slashes : VerifyClaim(k, valid, slash)
          \/ ExecutePayout(k)
    \/ Tick

Spec == Init /\ [][Next]_vars
-----------------------------------------------------------------------------
\* Each variable holds values of its type.
TypeOK ==
    /\ now \in 0 .. MaxNow
    /\ governance.threshold \in 1 .. Len(governance.approvers)
    /\ Created => /\ pool.staked \in Nat /\ pool.queued \in Nat /\ pool.coverage \in Nat
                  /\ pool.acc \in Nat /\ pool.total \in Int
    /\ \A who \in Account, f \in DOMAIN NewPosition : positions[who][f] \in Nat
    /\ last_claim \in [Account -> 0 .. MaxNow]
    /\ Len(claims) <= MaxClaims /\ Len(requests) <= MaxRequests

\* The requests of a staker that still wait, and the claims in a status.
Waiting(who) == {k \in DOMAIN requests : requests[k].staker = who /\ ~requests[k].claimed}
ClaimsIn(status) == {k \in DOMAIN claims : claims[k].status = status}

\* The books of the pool agree with those of its stakers, requests and claims: stakes,
\* queued withdrawals, payments and rejections add up.  The liquidity is short of
\* stakes and queue by exactly what was paid to claimants: payments touch no position,
\* so the last to withdraw bear all of them.
PoolBooks ==
    Created =>
        /\ pool.staked = SumFunctionOnSet([a \in Account |-> positions[a].staked], Account)
        /\ pool.queued = SumFunctionOnSet([a \in Account |-> positions[a].pending], Account)
        /\ \A a \in Account : positions[a].pending =
              SumFunctionOnSet([k \in Waiting(a) |-> requests[k].amount], Waiting(a))
        /\ pool.total = pool.staked + pool.queued - pool.paid
        /\ pool.paid = SumFunctionOnSet([k \in ClaimsIn("Paid") |-> claims[k].amount],
                                        ClaimsIn("Paid"))
        /\ pool.rejected_claims = Cardinality(ClaimsIn("Rejected"))

\* What a staker has earned so far, paid out or not.
Earned(who) ==
    positions[who].claimed + positions[who].accrued + Pending(positions[who])

\* Staking more, withdrawing, being slashed, claiming premiums and changes of the rate
\* neither add to what anyone has earned nor lose any of it: only a premium adds, to
\* each no more than the share of the stake, rounded up.
EarnedFromPremiums ==
    [][Created => \A who \in Account :
          LET share == positions[who].staked * (pool'.acc - pool.acc)
          IN  /\ Earned(who)' >= Earned(who)
              /\ Earned(who)' <= Earned(who) + (share + RewardScale - 1) \div RewardScale]_vars
=============================================================================
