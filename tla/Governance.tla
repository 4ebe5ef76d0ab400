------------------------------ MODULE Governance ------------------------------
(***************************************************************************)
(* The governance contract, soroban/src/governance.rs: registered and      *)
(* delegated voting power, the life of a proposal (delay, vote, tally,     *)
(* timelock, execution) and the guardians, who may execute an emergency    *)
(* proposal without the timelock.                                          *)
(*                                                                         *)
(* A call is one action: an assertion that fails rolls the whole call      *)
(* back.  Init is the state after initialize, which refuses a second call. *)
(* Executing a proposal only records that it was executed: the contract    *)
(* makes no call to target_contract.                                       *)
(*                                                                         *)
(* Left out: titles, descriptions, calldata, events.                       *)
(***************************************************************************)
EXTENDS Integers, FiniteSets, Functions

CONSTANTS
    Address,
    Admin,
    NoOne,              \* stands for a delegation that is not stored
    InitialConfig,      \* the configuration passed to initialize
    Configs,            \* bound: those passed to update_config
    Powers,             \* bound: powers passed to set_voting_power
    MaxPower,           \* bound: delegated power
    Candidates,         \* bound: who is made a guardian
    Types,              \* bound: types of the proposals
    MaxProposals,       \* bound: proposals
    MaxNow              \* bound: the ledger timestamp

ProposalType == {"ParameterChange", "OperatorApproval", "EmergencyPause"}
ProposalId == 0 .. (MaxProposals - 1)

Full == 10000           \* basis points

GovernanceConfig ==
    [timelock_delay : Nat, voting_period : Nat, voting_delay : Nat, quorum_bps : Nat,
     pass_threshold_bps : Nat, proposal_deposit : Nat, use_quadratic : BOOLEAN,
     guardian_threshold : Nat]

\* validate_governance_params
Valid(c) ==
    /\ c.quorum_bps <= Full
    /\ c.pass_threshold_bps \in 1 .. Full
    /\ c.voting_period > 0

ASSUME GovernanceAssumption ==
    /\ Admin \in Address /\ IsFiniteSet(Address)
    /\ NoOne \notin Address
    /\ InitialConfig \in GovernanceConfig /\ Valid(InitialConfig)
    /\ Configs \subseteq GovernanceConfig
    /\ Powers \subseteq Nat /\ MaxPower \in Nat
    /\ Types \subseteq ProposalType /\ Candidates \subseteq Address
    /\ MaxProposals \in Nat /\ MaxNow \in Nat

VARIABLES
    now,                \* ledger timestamp
    config,             \* DataKey::Config
    voting_power,       \* DataKey::VotingPower
    total_supply,       \* DataKey::TotalSupply
    delegation,         \* DataKey::Delegation: whom a voter delegates to
    delegated_power,    \* DataKey::DelegatedPower: the power a voter has received
    guardians,          \* DataKey::Guardian
    proposal_count,     \* DataKey::ProposalCount
    proposals,          \* DataKey::Proposal
    votes,              \* DataKey::VoteRecord
    approvals,          \* DataKey::GuardianApproval: who approved each id
    disturbed           \* history: the delegatees of a voter whose power changed meanwhile

powerVars == <<voting_power, total_supply, delegation, delegated_power, disturbed>>
ballotVars == <<proposal_count, proposals, votes>>
govVars == <<now, config, voting_power, total_supply, delegation, delegated_power,
             guardians, proposal_count, proposals, votes, approvals, disturbed>>

Choice == {"For", "Against", "Abstain"}
Undecided == {"Pending", "Active", "Passed", "Queued"}
Finished == {"Failed", "Executed", "Cancelled"}

\* What a proposal was decided upon: the supply and the thresholds of that moment.
Basis == [total_supply : Nat, quorum_bps : Nat, pass_threshold_bps : Nat]
NoBasis == [total_supply |-> 0, quorum_bps |-> 0, pass_threshold_bps |-> 0]

\* tally holds votes_for, votes_against and votes_abstain; basis is history, which the
\* contract does not keep and no call reads.
Proposal ==
    [status : Undecided \cup Finished, proposer : Address, proposal_type : ProposalType,
     tally : [Choice -> Nat], start_time : Nat, end_time : Nat, execute_after : Nat,
     executed_at : Nat, basis : Basis]
NoProposal ==
    [status |-> "None", proposer |-> Admin, proposal_type |-> "ParameterChange",
     tally |-> [c \in Choice |-> 0], start_time |-> 0, end_time |-> 0,
     execute_after |-> 0, executed_at |-> 0, basis |-> NoBasis]

VoteRecord == [choice : Choice, voting_power : Nat, effective_votes : Nat]
NoVote == [choice |-> "None", voting_power |-> 0, effective_votes |-> 0]

Status(id) == proposals[id].status
Voted(id, voter) == votes[id][voter].choice # "None"

EffectivePower(voter) ==
    (IF delegation[voter] = NoOne THEN voting_power[voter] ELSE 0) + delegated_power[voter]

\* isqrt: Newton's iteration, from x = n and y = ceiling(n / 2), while y < x.
Isqrt(n) ==
    LET Descend[x \in 1 .. n] ==
            LET y == (x + n \div x) \div 2 IN IF y < x THEN Descend[y] ELSE x
        first == (n + 1) \div 2
    IN  IF n = 0 THEN 0 ELSE IF first < n THEN Descend[first] ELSE n

Init ==
    /\ now = 0
    /\ config = InitialConfig
    /\ voting_power = [a \in Address |-> 0]
    /\ total_supply = 0
    /\ delegation = [a \in Address |-> NoOne]
    /\ delegated_power = [a \in Address |-> 0]
    /\ guardians = {}
    /\ proposal_count = 0
    /\ proposals = [id \in ProposalId |-> NoProposal]
    /\ votes = [id \in ProposalId |-> [a \in Address |-> NoVote]]
    /\ approvals = [id \in ProposalId |-> {}]
    /\ disturbed = {}
-----------------------------------------------------------------------------
\* The delegatee of a voter keeps the power it was given, whatever it is now.
SetVotingPower(voter, power) ==
    /\ voting_power' = [voting_power EXCEPT ![voter] = power]
    /\ total_supply' = total_supply - voting_power[voter] + power
    /\ disturbed' = IF power = voting_power[voter] THEN disturbed
                    ELSE disturbed \cup ({delegation[voter]} \ {NoOne})
    /\ UNCHANGED <<now, config, delegation, delegated_power, guardians, ballotVars, approvals>>

SetGuardian(guardian, is_guardian) ==
    /\ guardians' = IF is_guardian THEN guardians \cup {guardian} ELSE guardians \ {guardian}
    /\ UNCHANGED <<now, config, powerVars, ballotVars, approvals>>

UpdateConfig(c) ==
    /\ Valid(c)
    /\ config' = c
    /\ UNCHANGED <<now, powerVars, guardians, ballotVars, approvals>>

\* Mutant: what is taken away is not held above zero.
Withdrawn_Unclamped(delegator) ==
    IF delegation[delegator] = NoOne THEN delegated_power
    ELSE [delegated_power EXCEPT ![delegation[delegator]] = @ - voting_power[delegator]]

\* remove_delegation_internal: the power of now is taken from the delegatee.
Withdrawn(delegator) ==
    IF delegation[delegator] = NoOne THEN delegated_power
    ELSE [delegated_power EXCEPT ![delegation[delegator]] =
              IF @ > voting_power[delegator] THEN @ - voting_power[delegator] ELSE 0]

\* Mutant: an earlier delegation is not taken back.
DelegateVotes_Keep(delegator, delegatee) ==
    /\ delegator # delegatee
    /\ delegated_power[delegatee] + voting_power[delegator] <= MaxPower
    /\ delegation' = [delegation EXCEPT ![delegator] = delegatee]
    /\ delegated_power' = [delegated_power EXCEPT ![delegatee] = @ + voting_power[delegator]]
    /\ UNCHANGED <<now, config, voting_power, total_supply, disturbed, guardians, ballotVars,
                   approvals>>

DelegateVotes(delegator, delegatee) ==
    /\ delegator # delegatee
    /\ Withdrawn(delegator)[delegatee] + voting_power[delegator] <= MaxPower
    /\ delegation' = [delegation EXCEPT ![delegator] = delegatee]
    /\ delegated_power' = [Withdrawn(delegator) EXCEPT ![delegatee] =
                               @ + voting_power[delegator]]
    /\ UNCHANGED <<now, config, voting_power, total_supply, disturbed, guardians, ballotVars,
                   approvals>>

UndelegateVotes(delegator) ==
    /\ delegated_power' = Withdrawn(delegator)
    /\ delegation' = [delegation EXCEPT ![delegator] = NoOne]
    /\ UNCHANGED <<now, config, voting_power, total_supply, disturbed, guardians, ballotVars,
                   approvals>>
-----------------------------------------------------------------------------
CreateProposal(caller, type) ==
    LET start == now + config.voting_delay
    IN  /\ proposal_count < MaxProposals
        /\ EffectivePower(caller) >= config.proposal_deposit
        /\ proposal_count' = proposal_count + 1
        /\ proposals' = [proposals EXCEPT ![proposal_count] =
              [status |-> "Pending", proposer |-> caller, proposal_type |-> type,
               tally |-> [c \in Choice |-> 0], start_time |-> start,
               end_time |-> start + config.voting_period, execute_after |-> 0,
               executed_at |-> 0, basis |-> NoBasis]]
        /\ UNCHANGED <<now, config, powerVars, guardians, votes, approvals>>

\* A proposal passes to another status; nothing but proposals changes.
Becomes(id, status) ==
    /\ proposals' = [proposals EXCEPT ![id].status = status]
    /\ UNCHANGED <<now, config, powerVars, guardians, proposal_count, votes, approvals>>

ActivateProposal(id) ==
    /\ Status(id) = "Pending"
    /\ now >= proposals[id].start_time
    /\ Becomes(id, "Active")

BallotOf(voter, choice) ==
    LET power == EffectivePower(voter)
    IN  [choice |-> choice, voting_power |-> power,
         effective_votes |-> IF config.use_quadratic THEN Isqrt(power) ELSE power]

Count(id, voter, choice) ==
    LET ballot == BallotOf(voter, choice)
    IN  /\ votes' = [votes EXCEPT ![id][voter] = ballot]
        /\ proposals' = [proposals EXCEPT ![id].tally[choice] = @ + ballot.effective_votes]
        /\ UNCHANGED <<now, config, powerVars, guardians, proposal_count, approvals>>

\* Mutant: a voter who changes his mind is counted again.
CastVote_Again(voter, id, choice) ==
    /\ Status(id) = "Active"
    /\ now \in proposals[id].start_time .. proposals[id].end_time
    /\ votes[id][voter].choice # choice
    /\ EffectivePower(voter) > 0
    /\ Count(id, voter, choice)

\* Mutant: votes are accepted until the proposal is finalized.
CastVote_Overtime(voter, id, choice) ==
    /\ Status(id) = "Active"
    /\ ~Voted(id, voter)
    /\ EffectivePower(voter) > 0
    /\ Count(id, voter, choice)

\* The power is the one of this moment: a voter may delegate it after voting, and the
\* delegatee votes with it again.
CastVote(voter, id, choice) ==
    /\ Status(id) = "Active"
    /\ now \in proposals[id].start_time .. proposals[id].end_time
    /\ ~Voted(id, voter)
    /\ EffectivePower(voter) > 0
    /\ Count(id, voter, choice)

\* Mutant: no quorum is asked for.
Passes_NoQuorum(tally) ==
    LET decided == tally["For"] + tally["Against"]
    IN  /\ total_supply > 0
        /\ decided > 0
        /\ (tally["For"] * Full) \div decided >= config.pass_threshold_bps

Passes(tally) ==
    LET decided == tally["For"] + tally["Against"]
        total == decided + tally["Abstain"]
    IN  /\ total_supply > 0 /\ (total * Full) \div total_supply >= config.quorum_bps
        /\ decided > 0
        /\ (tally["For"] * Full) \div decided >= config.pass_threshold_bps

Decide(id) ==
    /\ proposals' = [proposals EXCEPT
          ![id].status = IF Passes(proposals[id].tally) THEN "Passed" ELSE "Failed",
          ![id].basis = [total_supply |-> total_supply, quorum_bps |-> config.quorum_bps,
                         pass_threshold_bps |-> config.pass_threshold_bps]]
    /\ UNCHANGED <<now, config, powerVars, guardians, proposal_count, votes, approvals>>

\* Mutant: the last second of the vote is already past.
FinalizeProposal_AtEnd(id) ==
    /\ Status(id) = "Active"
    /\ now >= proposals[id].end_time
    /\ Decide(id)

\* Supply and thresholds are those of this moment.
FinalizeProposal(id) ==
    /\ Status(id) = "Active"
    /\ now > proposals[id].end_time
    /\ Decide(id)

QueueProposal(id) ==
    /\ Status(id) = "Passed"
    /\ proposals' = [proposals EXCEPT ![id].status = "Queued",
                                      ![id].execute_after = now + config.timelock_delay]
    /\ UNCHANGED <<now, config, powerVars, guardians, proposal_count, votes, approvals>>

Execute(id) ==
    /\ proposals' = [proposals EXCEPT ![id].status = "Executed", ![id].executed_at = now]
    /\ UNCHANGED <<now, config, powerVars, guardians, proposal_count, votes, approvals>>

ExecuteProposal(id) ==
    /\ Status(id) = "Queued"
    /\ now >= proposals[id].execute_after
    /\ Execute(id)
-----------------------------------------------------------------------------
\* The proposal need not exist yet, nor be an emergency.  approvals[id] stands for the
\* counter too: it grows by one with each approval, and no approval is ever removed.
GuardianApprove(guardian, id) ==
    /\ guardian \in guardians \ approvals[id]
    /\ approvals' = [approvals EXCEPT ![id] = @ \cup {guardian}]
    /\ UNCHANGED <<now, config, powerVars, guardians, ballotVars>>

\* The approvals of guardians removed since are counted.
GuardianExecute(executor, id) ==
    /\ executor \in guardians
    /\ Cardinality(approvals[id]) >= config.guardian_threshold
    /\ proposals[id].proposal_type = "EmergencyPause"
    /\ Status(id) \in {"Active", "Passed", "Queued"}
    /\ Execute(id)

CancelProposal(caller, id) ==
    /\ caller \in {proposals[id].proposer, Admin}
    /\ Status(id) \in Undecided
    /\ Becomes(id, "Cancelled")
-----------------------------------------------------------------------------
Tick ==
    /\ now < MaxNow
    /\ now' = now + 1
    /\ UNCHANGED <<config, powerVars, guardians, ballotVars, approvals>>

\* The calls only_admin guards.
Administer ==
    \/ \E a \in Address, power \in Powers : SetVotingPower(a, power)
    \/ \E a \in Candidates, is_guardian \in BOOLEAN : SetGuardian(a, is_guardian)
    \/ \E c \in Configs : UpdateConfig(c)

Delegate(caller) ==
    \/ \E a \in Address : DelegateVotes(caller, a)
    \/ UndelegateVotes(caller)

Vote(caller) ==
    \/ \E type \in Types : CreateProposal(caller, type)
    \/ \E id \in ProposalId, choice \in Choice : CastVote(caller, id, choice)
    \/ \E id \in ProposalId : GuardianApprove(caller, id)
    \/ \E id \in ProposalId : GuardianExecute(caller, id)
    \/ \E id \in ProposalId : CancelProposal(caller, id)

\* The calls anyone may make.
Advance(id) ==
    \/ ActivateProposal(id)
    \/ FinalizeProposal(id)
    \/ QueueProposal(id)
    \/ ExecuteProposal(id)

Next ==
    \/ Administer
    \/ \E caller \in Address : Delegate(caller) \/ Vote(caller)
    \/ \E id \in ProposalId : Advance(id)
    \/ Tick

Spec == Init /\ [][Next]_govVars
-----------------------------------------------------------------------------
\* Each variable holds values of its type.
TypeOK ==
    /\ now \in 0 .. MaxNow
    /\ config \in GovernanceConfig /\ Valid(config)
    /\ voting_power \in [Address -> Nat]
    /\ total_supply \in Nat
    /\ delegation \in [Address -> Address \cup {NoOne}]
    /\ delegated_power \in [Address -> 0 .. MaxPower]
    /\ guardians \subseteq Address /\ disturbed \subseteq Address
    /\ proposal_count \in 0 .. MaxProposals
    /\ proposals \in [ProposalId -> Proposal \cup {NoProposal}]
    /\ votes \in [ProposalId -> [Address -> VoteRecord \cup {NoVote}]]
    /\ approvals \in [ProposalId -> SUBSET Address]

\* The supply is the sum of the registered powers, and what a delegatee has received is
\* the sum of the powers of those who delegate to it now, however often they delegated,
\* delegated elsewhere or withdrew, as long as none of their powers was changed while
\* it was delegated.
PowerAccounted ==
    /\ total_supply = SumFunction(voting_power)
    /\ \A a \in Address \ disturbed :
          delegated_power[a] =
              SumFunctionOnSet(voting_power, {d \in Address : delegation[d] = a})

\* Each tally is the sum of the recorded votes for that choice; a vote carries the
\* voter's power or, where votes are quadratic, the largest integer whose square it holds.
BallotsCounted ==
    \A id \in ProposalId :
        LET cast(c) == {a \in Address : votes[id][a].choice = c}
            weight == [a \in Address |-> votes[id][a].effective_votes]
        IN  /\ \A c \in Choice : proposals[id].tally[c] = SumFunctionOnSet(weight, cast(c))
            /\ \A a \in Address :
                  LET power == votes[id][a].voting_power
                  IN  weight[a] # power => /\ weight[a] * weight[a] <= power
                                           /\ power < (weight[a] + 1) * (weight[a] + 1)

\* The vote on p reached the quorum of the supply, and its votes in favour the threshold
\* of those decided, by the supply and the thresholds it was decided upon.
Won(p) ==
    LET decided == p.tally["For"] + p.tally["Against"]
        total == decided + p.tally["Abstain"]
    IN  /\ p.basis.total_supply > 0
        /\ total * Full >= p.basis.quorum_bps * p.basis.total_supply
        /\ decided > 0
        /\ p.tally["For"] * Full >= p.basis.pass_threshold_bps * decided

\* Only a vote that is over and won, after its timelock, or the guardians' approvals of
\* an emergency whose vote has begun lead to an execution; whatever is reconfigured,
\* delegated or revoked on the way.
ExecutionJustified ==
    [][\A id \in ProposalId :
          Status(id) # "Executed" /\ proposals'[id].status = "Executed" =>
              \/ /\ Won(proposals[id])
                 /\ now > proposals[id].end_time
                 /\ now >= proposals[id].execute_after
              \/ /\ proposals[id].proposal_type = "EmergencyPause"
                 /\ now >= proposals[id].start_time
                 /\ Cardinality(approvals[id]) >= config.guardian_threshold]_govVars

\* What is failed, executed or cancelled stays so, and once the window has passed the
\* tally no longer changes.
VoteClosed ==
    [][\A id \in ProposalId :
          /\ Status(id) \in Finished => proposals'[id] = proposals[id]
          /\ Status(id) # "None" /\ now > proposals[id].end_time =>
                proposals'[id].tally = proposals[id].tally]_govVars

\* What the comment of effective_power says: a voter votes with his own power, unless
\* delegated away, and with the power delegated to him.
DelegatedPowerCounts ==
    \A a \in Address :
        EffectivePower(a) =
            (IF delegation[a] = NoOne THEN voting_power[a] ELSE 0)
            + SumFunctionOnSet(voting_power, {d \in Address : delegation[d] = a})

=============================================================================
