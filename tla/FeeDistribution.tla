--------------------------- MODULE FeeDistribution ---------------------------
(***************************************************************************)
(* The fee distribution contract, soroban/src/fee_distribution.rs: fees    *)
(* are collected per token, split between stakers, governance and treasury *)
(* and claimed, compounded or vested.                                      *)
(*                                                                         *)
(* A call is one action; a panic or a failed token transfer undoes all of  *)
(* it.  Rewards are shared by an accumulator per token, scaled by          *)
(* Precision; a staker's debt is set anew with every change of the stake.  *)
(* held is what the contract owns of each token in the token contracts; the *)
(* payers are external and never short.                                    *)
(*                                                                         *)
(* Left out: treasury address, times of stakes and rounds, ids of records, *)
(* events, getters.  i128 does not overflow at the amounts of real tokens. *)
(***************************************************************************)
EXTENDS Integers, Sequences, FiniteSets, Functions, SequencesExt

CONSTANTS
    Staker, Collector, Admin,   \* accounts: stakers, collectors and the administrator
    Token, StakingToken,        \* the fee tokens, and the token that is staked
    RatioChoices,               \* bound: splits passed to initialize and update_ratios
    Precision,                  \* PRECISION: shrunk, the checker's integers have 32 bits
    Fees, Stakes,               \* bound: amounts collected and staked
    Intervals,                  \* bound: intervals of automatic rounds
    Vestings,                   \* bound: amount, duration and cliff of vesting schedules
    Withdrawals,                \* bound: amounts of emergency withdrawals
    MaxCollected, MaxStaked, MaxSchedules, MaxNow

\* What the theorems suppose of the constants.
FeesConstants ==
    /\ IsFiniteSet(Staker)
    /\ RatioChoices \subseteq [stakers : Nat, governance : Nat, treasury : Nat]
    /\ Precision \in Nat \ {0}
    /\ Fees \subseteq Int /\ Stakes \subseteq Int
    /\ Vestings \subseteq [amount : Int, duration : Nat, cliff : Nat]
    /\ MaxStaked \in Nat /\ MaxNow \in Nat

Bps == 10000

VARIABLES
    now,
    ratios, tokens, collectors, interval, last_round, halted,   \* settings
    pools,                      \* FeePool of each registered token
    rounds,                     \* DistributionRecords of each token
    total_staked, stake, compounds, debt, unclaimed,
    schedules,                  \* VestingSchedules, in order of their ids
    held                        \* external: balance of the contract

feeSettings == <<ratios, tokens, collectors, interval, last_round, halted>>
stakeVars == <<total_staked, stake, compounds, debt, unclaimed>>
feeVars == <<feeSettings, pools, rounds, stakeVars, schedules, held>>
vars == <<now, feeVars>>

AllTokens == Token \cup {StakingToken}
EmptyPool == [collected |-> 0, distributed |-> 0, pending |-> 0, acc |-> 0, governance |-> 0]
ValidRatios(r) == r.stakers + r.governance + r.treasury = Bps

\* The state after initialize, which runs once.
Init ==
    /\ now = 0
    /\ ratios \in {r \in RatioChoices : ValidRatios(r)}
    /\ tokens = {} /\ collectors = {}
    /\ interval = 0 /\ last_round = 0 /\ halted = FALSE
    /\ pools = [t \in Token |-> EmptyPool]
    /\ rounds = [t \in Token |-> <<>>]
    /\ total_staked = 0
    /\ stake = [a \in Staker |-> 0]
    /\ compounds = [a \in Staker |-> FALSE]
    /\ debt = [a \in Staker |-> [t \in Token |-> 0]]
    /\ unclaimed = [a \in Staker |-> [t \in Token |-> 0]]
    /\ schedules = <<>>
    /\ held = [t \in AllTokens |-> 0]
-----------------------------------------------------------------------------
\* The administrator's settings.
Configure ==
    /\ \/ /\ \E r \in RatioChoices : ValidRatios(r) /\ ratios' = r
          /\ UNCHANGED <<tokens, collectors, interval, last_round, halted>>
       \/ /\ \E t \in Token : tokens' = tokens \cup {t}
          /\ UNCHANGED <<ratios, collectors, interval, last_round, halted>>
       \/ /\ \E c \in Collector : collectors' \in {collectors \cup {c}, collectors \ {c}}
          /\ UNCHANGED <<ratios, tokens, interval, last_round, halted>>
       \/ /\ interval' \in Intervals
          /\ UNCHANGED <<ratios, tokens, collectors, last_round, halted>>
       \/ /\ halted' \in BOOLEAN
          /\ UNCHANGED <<ratios, tokens, collectors, interval, last_round>>
    /\ UNCHANGED <<now, pools, rounds, stakeVars, schedules, held>>
-----------------------------------------------------------------------------
PartOf(amount, bps) == (amount * bps) \div Bps

\* The treasury takes what rounding leaves.
Split(amount) ==
    LET s == PartOf(amount, ratios.stakers)
        g == PartOf(amount, ratios.governance)
    IN  [total |-> amount, stakers |-> s, governance |-> g, treasury |-> amount - s - g]

\* Mutant: without stakers their share is lost.
Distributed_Orphaned(pool) ==
    LET cut == Split(pool.pending)
    IN  [pool EXCEPT
           !.acc = @ + (IF total_staked > 0 THEN (cut.stakers * Precision) \div total_staked
                        ELSE 0),
           !.governance = @ + cut.governance,
           !.distributed = @ + pool.pending,
           !.pending = 0]

\* Without stakers, governance gets their share.
Distributed(pool) ==
    LET cut == Split(pool.pending)
    IN  [pool EXCEPT
           !.acc = @ + (IF total_staked > 0 THEN (cut.stakers * Precision) \div total_staked
                        ELSE 0),
           !.governance = @ + cut.governance + (IF total_staked > 0 THEN 0 ELSE cut.stakers),
           !.distributed = @ + pool.pending,
           !.pending = 0]

\* One round over the tokens chosen, given the pools and balances before it.
Round(chosen, before, balance) ==
    LET due == {t \in chosen \cap tokens : before[t].pending > 0}
        paid(t) == IF t \in due THEN Split(before[t].pending).treasury ELSE 0
    IN  /\ \A t \in due : paid(t) <= balance[t]
        /\ pools' = [t \in Token |-> IF t \in due THEN Distributed(before[t]) ELSE before[t]]
        /\ held' = [t \in AllTokens |-> balance[t] - paid(t)]
        /\ rounds' = [t \in Token |-> IF t \in due
                                      THEN Append(rounds[t], Split(before[t].pending))
                                      ELSE rounds[t]]
        /\ last_round' = now

\* Every fee collected may start a round, when one is due.
CollectFees(who, t, amount) ==
    LET credited == [pools EXCEPT ![t].collected = @ + amount, ![t].pending = @ + amount]
        balance == [held EXCEPT ![t] = @ + amount]
    IN  /\ ~halted
        /\ amount > 0
        /\ who = Admin \/ who \in collectors
        /\ t \in tokens
        /\ pools[t].collected + amount <= MaxCollected
        /\ IF interval > 0 /\ now >= last_round + interval
           THEN Round(tokens, credited, balance)
           ELSE /\ pools' = credited
                /\ held' = balance
                /\ UNCHANGED <<rounds, last_round>>
        /\ UNCHANGED <<now, ratios, tokens, collectors, interval, halted, stakeVars,
                       schedules>>

\* Anyone; the empty list stands for all tokens.
DistributeFees(chosen) ==
    /\ ~halted
    /\ Round(IF chosen = {} THEN tokens ELSE chosen, pools, held)
    /\ UNCHANGED <<now, ratios, tokens, collectors, interval, halted, stakeVars,
                   schedules>>
-----------------------------------------------------------------------------
Accrued(amount, t) == (amount * pools[t].acc) \div Precision

\* harvest_rewards: what the stake earned since the debt was set.
Live(a, t) ==
    IF stake[a] > 0 /\ t \in tokens /\ Accrued(stake[a], t) > debt[a][t]
    THEN Accrued(stake[a], t) - debt[a][t] ELSE 0

Harvested(a) == [t \in Token |-> unclaimed[a][t] + Live(a, t)]

\* Mutant: the debt stays as it was for the old stake.
Synced_Stale(a, amount) == debt[a]

\* sync_debts.
Synced(a, amount) == [t \in Token |-> IF t \in tokens THEN Accrued(amount, t) ELSE debt[a][t]]

SetStake(a, amount) ==
    /\ stake' = [stake EXCEPT ![a] = amount]
    /\ debt' = [debt EXCEPT ![a] = Synced(a, amount)]
    /\ total_staked' = total_staked - stake[a] + amount

StakeForFees(a, amount, enable) ==
    /\ ~halted
    /\ amount > 0
    /\ total_staked + amount <= MaxStaked
    /\ unclaimed' = [unclaimed EXCEPT ![a] = Harvested(a)]
    /\ SetStake(a, stake[a] + amount)
    /\ compounds' = [compounds EXCEPT ![a] = enable]
    /\ held' = [held EXCEPT ![StakingToken] = @ + amount]
    /\ UNCHANGED <<now, feeSettings, pools, rounds, schedules>>

Unstake(a, amount) ==
    /\ amount \in 1 .. stake[a]
    /\ amount <= held[StakingToken]
    /\ unclaimed' = [unclaimed EXCEPT ![a] = Harvested(a)]
    /\ SetStake(a, stake[a] - amount)
    /\ held' = [held EXCEPT ![StakingToken] = @ - amount]
    /\ UNCHANGED <<now, feeSettings, pools, rounds, compounds, schedules>>

\* The reward joins the stake, whatever token it is in.
Compound(a, t) ==
    LET reward == Harvested(a)[t]
    IN  /\ total_staked + reward <= MaxStaked
        /\ unclaimed' = [unclaimed EXCEPT ![a] = [Harvested(a) EXCEPT ![t] = 0]]
        /\ SetStake(a, stake[a] + reward)
        /\ UNCHANGED held

PayReward(a, t) ==
    LET reward == Harvested(a)[t]
    IN  /\ reward <= held[t]
        /\ unclaimed' = [unclaimed EXCEPT ![a] = [Harvested(a) EXCEPT ![t] = 0]]
        /\ debt' = [debt EXCEPT ![a] = [u \in Token |->
              IF Live(a, u) > 0 THEN Accrued(stake[a], u) ELSE debt[a][u]]]
        /\ held' = [held EXCEPT ![t] = @ - reward]
        /\ UNCHANGED <<total_staked, stake>>

ClaimFees(a, t) ==
    /\ ~halted
    /\ Harvested(a)[t] > 0
    /\ IF compounds[a] THEN Compound(a, t) ELSE PayReward(a, t)
    /\ UNCHANGED <<now, feeSettings, pools, rounds, compounds, schedules>>

\* Anyone, for a staker that compounds.
CompoundRewards(a, t) ==
    /\ compounds[a]
    /\ IF Harvested(a)[t] > 0
       THEN Compound(a, t)
       ELSE /\ unclaimed' = [unclaimed EXCEPT ![a] = Harvested(a)]
            /\ debt' = [debt EXCEPT ![a] = [u \in Token |->
                  IF Live(a, u) > 0 THEN Accrued(stake[a], u) ELSE debt[a][u]]]
            /\ UNCHANGED <<total_staked, stake, held>>
    /\ UNCHANGED <<now, feeSettings, pools, rounds, compounds, schedules>>
-----------------------------------------------------------------------------
CreateVestingSchedule(a, t, v) ==
    /\ ~halted
    /\ Len(schedules) < MaxSchedules
    /\ v.amount > 0 /\ v.duration > 0 /\ v.cliff <= v.duration
    /\ t \in tokens
    /\ pools[t].governance >= v.amount
    /\ pools' = [pools EXCEPT ![t].governance = @ - v.amount]
    /\ schedules' = Append(schedules,
          [beneficiary |-> a, token |-> t, total |-> v.amount, claimed |-> 0,
           start |-> now, duration |-> v.duration, cliff |-> v.cliff])
    /\ UNCHANGED <<now, feeSettings, rounds, stakeVars, held>>

\* Mutant: what was claimed before is paid again.
Claimable_Again(s) ==
    IF now - s.start >= s.duration THEN s.total ELSE (s.total * (now - s.start)) \div s.duration

Claimable(s) ==
    (IF now - s.start >= s.duration THEN s.total
     ELSE (s.total * (now - s.start)) \div s.duration) - s.claimed

ClaimVested(k) ==
    LET s == schedules[k]
    IN  /\ now - s.start >= s.cliff
        /\ Claimable(s) > 0
        /\ Claimable(s) <= held[s.token]
        /\ schedules' = [schedules EXCEPT ![k].claimed = @ + Claimable(s)]
        /\ held' = [held EXCEPT ![s.token] = @ - Claimable(s)]
        /\ UNCHANGED <<now, feeSettings, pools, rounds, stakeVars>>

EmergencyWithdraw(t, amount) ==
    /\ halted
    /\ amount \in 0 .. held[t]
    /\ held' = [held EXCEPT ![t] = @ - amount]
    /\ UNCHANGED <<now, feeSettings, pools, rounds, stakeVars, schedules>>

Tick ==
    /\ now < MaxNow
    /\ now' = now + 1
    /\ UNCHANGED feeVars

Next ==
    \/ Configure
    \/ \E who \in Collector \cup {Admin}, t \in Token, amount \in Fees :
          CollectFees(who, t, amount)
    \/ \E chosen \in SUBSET Token : DistributeFees(chosen)
    \/ \E a \in Staker :
          \/ \E amount \in Stakes :
                \/ \E enable \in BOOLEAN : StakeForFees(a, amount, enable)
                \/ Unstake(a, amount)
          \/ \E t \in Token :
                \/ ClaimFees(a, t)
                \/ CompoundRewards(a, t)
                \/ \E v \in Vestings : CreateVestingSchedule(a, t, v)
    \/ \E k \in DOMAIN schedules : ClaimVested(k)
    \/ \E t \in AllTokens, amount \in Withdrawals : EmergencyWithdraw(t, amount)
    \/ Tick

Spec == Init /\ [][Next]_vars
-----------------------------------------------------------------------------
\* Each variable holds values of its type.
TypeOK ==
    /\ ValidRatios(ratios) /\ tokens \subseteq Token /\ collectors \subseteq Collector
    /\ \A t \in Token, f \in DOMAIN EmptyPool : pools[t][f] \in Nat
    /\ stake \in [Staker -> Nat] /\ total_staked \in Nat
    /\ \A a \in Staker, t \in Token : debt[a][t] \in Nat /\ unclaimed[a][t] \in Nat
    /\ held \in [AllTokens -> Nat]

\* The sum of a field over the rounds of a token, and what was put into its vesting
\* schedules.
RoundsOf(t, field) ==
    SumFunctionOnSet([k \in DOMAIN rounds[t] |-> rounds[t][k][field]], DOMAIN rounds[t])

VestingOf(t) ==
    LET own == {k \in DOMAIN schedules : schedules[k].token = t}
    IN  SumFunctionOnSet([k \in own |-> schedules[k].total], own)

\* Every fee is in one place: still pending or in the record of a round; what the
\* rounds gave to governance is in its pool or in a vesting schedule, the share of
\* stakers too while there were none; no schedule pays more than it holds.
FeesAccounted ==
    /\ total_staked = SumFunctionOnSet(stake, Staker)
    /\ \A t \in Token :
          LET governed == pools[t].governance + VestingOf(t)
          IN  /\ pools[t].collected = pools[t].pending + RoundsOf(t, "total")
              /\ RoundsOf(t, "total") =
                    RoundsOf(t, "stakers") + RoundsOf(t, "governance") + RoundsOf(t, "treasury")
              /\ governed >= RoundsOf(t, "governance")
              /\ governed <= RoundsOf(t, "governance") + RoundsOf(t, "stakers")
              /\ pools[t].acc = 0 =>
                    governed = RoundsOf(t, "governance") + RoundsOf(t, "stakers")
    /\ \A k \in DOMAIN schedules : schedules[k].claimed <= schedules[k].total

\* What a staker has to claim.
Owed(a, t) == unclaimed[a][t] + Live(a, t)

\* A change of anybody's stake, a registered token, a claim or a compounding takes
\* nothing a staker has earned and gives nobody a part of a round before the stake:
\* what is owed grows only by a round, by at most the share of the stake rounded up,
\* and falls only when the staker is paid all of it.
FairShare ==
    \A a \in Staker, t \in Token :
        LET share == stake[a] * (pools'[t].acc - pools[t].acc)
        IN  /\ Owed(a, t)' <= Owed(a, t) + (share + Precision - 1) \div Precision
            /\ Owed(a, t)' >= Owed(a, t) \/ Owed(a, t)' = 0
=============================================================================
