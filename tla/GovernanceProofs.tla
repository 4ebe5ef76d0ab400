--------------------------- MODULE GovernanceProofs ----------------------------
(***************************************************************************)
(* Proofs about module Governance, for every value of its constants.       *)
(***************************************************************************)
EXTENDS Governance, TLAPS, FiniteSetTheorems, SumTheorems

-----------------------------------------------------------------------------
(***************************************************************************)
(* Isqrt: Newton's iteration computes the integer square root.             *)
(***************************************************************************)

\* Isqrt looks its first estimate up in the table of the descent.
LEMMA IsqrtUnfolded ==
    ASSUME NEW n
    PROVE  Isqrt(n) = NewtonRoot(n)
BY DEF Isqrt, NewtonRoot, Root, Descent, Better

\* For every number, isqrt returns the largest integer whose square it holds.
THEOREM IsqrtIsRoot ==
    ASSUME NEW n \in Nat
    PROVE  /\ Isqrt(n) \in Nat
           /\ Isqrt(n) * Isqrt(n) <= n
           /\ n < (Isqrt(n) + 1) * (Isqrt(n) + 1)
BY IsqrtUnfolded, NewtonRootIsRoot

-----------------------------------------------------------------------------
(***************************************************************************)
(* The inductive invariant.                                                *)
(***************************************************************************)

\* A proposal that was not created yet is blank, and nobody voted on it.
Unborn ==
    \A id \in ProposalId :
        /\ id >= proposal_count => proposals[id] = NoProposal
        /\ Status(id) = "None" => \A a \in Address : votes[id][a] = NoVote

\* A proposal that left Pending without failing had its vote begin, and one that passed
\* was won and its vote is over.
Begun(id) == Status(id) \in {"Active", "Passed", "Queued"} => now >= proposals[id].start_time
Decided(id) ==
    Status(id) \in {"Passed", "Queued"} =>
        now > proposals[id].end_time /\ Won(proposals[id])

IInv ==
    /\ TypeOK
    /\ PowerAccounted
    /\ BallotsCounted
    /\ Unborn
    /\ \A id \in ProposalId : Begun(id) /\ Decided(id)

\* Who delegates to a, who voted c on id, and what each vote on id weighs.
Delegators(a) == {d \in Address : delegation[d] = a}
Voters(id, c) == {a \in Address : votes[id][a].choice = c}
Weight(id) == [a \in Address |-> votes[id][a].effective_votes]

\* What one vote records of the voter's power.
RootHeld(weight, power) ==
    weight # power => weight * weight <= power /\ power < (weight + 1) * (weight + 1)

\* The parts of the invariant, of one address or one proposal.
PowerOK(a) == delegated_power[a] = SumFunctionOnSet(voting_power, Delegators(a))
TallyOK(id) ==
    /\ \A c \in Choice : proposals[id].tally[c] = SumFunctionOnSet(Weight(id), Voters(id, c))
    /\ \A a \in Address : RootHeld(Weight(id)[a], votes[id][a].voting_power)

\* The two parts of PowerAccounted.
LEMMA PowerByAddress ==
    PowerAccounted <=> /\ total_supply = SumFunction(voting_power)
                       /\ \A a \in Address \ disturbed : PowerOK(a)
BY DEF PowerAccounted, PowerOK, Delegators

\* BallotsCounted holds of each proposal.
LEMMA BallotsByProposal == BallotsCounted <=> \A id \in ProposalId : TallyOK(id)
BY DEF BallotsCounted, TallyOK, Weight, Voters, RootHeld

\* The supply is summed over all addresses.
LEMMA SupplySum ==
    ASSUME TypeOK
    PROVE  SumFunction(voting_power) = SumFunctionOnSet(voting_power, Address)
<1>1. DOMAIN voting_power = Address
  BY DEF TypeOK
<1> QED
  BY <1>1 DEF SumFunction

\* Nobody has power, delegates or votes at first.
LEMMA InitIInv == Init => IInv
<1> SUFFICES ASSUME Init PROVE IInv
  OBVIOUS
<1>1. TypeOK
  <2>1. config \in GovernanceConfig /\ Valid(config)
    BY GovernanceAssumption DEF Init
  <2>2. proposals \in [ProposalId -> Proposal \cup {NoProposal}]
        /\ votes \in [ProposalId -> [Address -> VoteRecord \cup {NoVote}]]
        /\ approvals \in [ProposalId -> SUBSET Address]
    BY DEF Init
  <2>3. now \in 0 .. MaxNow /\ proposal_count \in 0 .. MaxProposals
    BY GovernanceAssumption DEF Init
  <2>4. delegated_power \in [Address -> 0 .. MaxPower]
    BY GovernanceAssumption DEF Init
  <2> QED
    BY <2>1, <2>2, <2>3, <2>4 DEF Init, TypeOK
<1>2. PowerAccounted
  <2>0. IsFiniteSet(Address)
    BY GovernanceAssumption
  <2>1. \A a \in Address : voting_power[a] = 0
    BY DEF Init
  <2>2. SumFunction(voting_power) = 0
    BY <1>1, <2>0, <2>1, SupplySum, SumConstantZero
  <2>3. ASSUME NEW a \in Address PROVE PowerOK(a)
    <3>1. Delegators(a) = {}
      BY GovernanceAssumption DEF Init, Delegators
    <3>2. SumFunctionOnSet(voting_power, Delegators(a)) = 0
      BY <3>1, SumEmpty
    <3> QED
      BY <3>2 DEF PowerOK, Init
  <2> QED
    BY <2>2, <2>3, PowerByAddress DEF Init
<1>3. BallotsCounted
  <2> SUFFICES ASSUME NEW id \in ProposalId PROVE TallyOK(id)
    BY BallotsByProposal
  <2>1. /\ \A c \in Choice : proposals[id].tally[c] = 0
        /\ \A a \in Address : votes[id][a] = NoVote
    BY DEF Init, NoProposal
  <2>2. ASSUME NEW c \in Choice PROVE SumFunctionOnSet(Weight(id), Voters(id, c)) = 0
    <3>1. Voters(id, c) = {}
      BY <2>1 DEF Voters, NoVote, Choice
    <3> QED
      BY <3>1, SumEmpty
  <2>3. \A a \in Address : Weight(id)[a] = votes[id][a].voting_power
    BY <2>1 DEF Weight, NoVote
  <2> QED
    BY <2>1, <2>2, <2>3 DEF TallyOK, RootHeld
<1>4. Unborn
  BY DEF Init, Unborn
<1>5. \A id \in ProposalId : Begun(id) /\ Decided(id)
  BY DEF Init, Begun, Decided, Status, NoProposal
<1> QED
  BY <1>1, <1>2, <1>3, <1>4, <1>5 DEF IInv

-----------------------------------------------------------------------------
(***************************************************************************)
(* Steps of one half of the contract leave the other half alone.           *)
(***************************************************************************)

\* Where powers and delegations stay as they are, the accounts do.
LEMMA PowerKept ==
    ASSUME PowerAccounted, UNCHANGED powerVars
    PROVE  PowerAccounted'
<1>1. /\ voting_power' = voting_power /\ total_supply' = total_supply
      /\ delegation' = delegation /\ delegated_power' = delegated_power
      /\ disturbed' = disturbed
  BY DEF powerVars
<1> QED
  BY <1>1 DEF PowerAccounted

\* Where proposals and votes stay as they are and no time passes backwards, so do the
\* tallies and what is known of each proposal.
LEMMA BallotsKept ==
    ASSUME IInv, UNCHANGED ballotVars, now' \in 0 .. MaxNow, now' >= now
    PROVE  /\ BallotsCounted' /\ Unborn'
           /\ \A id \in ProposalId : Begun(id)' /\ Decided(id)'
<1>1. proposal_count' = proposal_count /\ proposals' = proposals /\ votes' = votes
  BY DEF ballotVars
<1>2. BallotsCounted' /\ Unborn'
  BY <1>1 DEF IInv, BallotsCounted, Unborn, Status
<1>3. ASSUME NEW id \in ProposalId PROVE Begun(id)' /\ Decided(id)'
  <2>1. Begun(id) /\ Decided(id)
    BY DEF IInv
  <2>2. now \in Int /\ now' \in Int
    BY DEF IInv, TypeOK
  <2>3. Status(id) # "None" => proposals[id].start_time \in Int /\ proposals[id].end_time \in Int
    BY DEF IInv, TypeOK, Proposal, NoProposal, Status
  <2>4. now >= proposals[id].start_time /\ Status(id) # "None" => now' >= proposals[id].start_time
    BY <2>2, <2>3
  <2>5. now > proposals[id].end_time /\ Status(id) # "None" => now' > proposals[id].end_time
    BY <2>2, <2>3
  <2>6. Begun(id)'
    BY <1>1, <2>1, <2>4 DEF Begun, Status
  <2>7. Decided(id)'
    BY <1>1, <2>1, <2>5 DEF Decided, Status
  <2> QED
    BY <2>6, <2>7
<1> QED
  BY <1>2, <1>3

-----------------------------------------------------------------------------
(***************************************************************************)
(* Voting power and its delegation.                                        *)
(***************************************************************************)

\* Facts of the present powers that the next lemmas use.
LEMMA PowerTypes ==
    ASSUME IInv
    PROVE  /\ IsFiniteSet(Address)
           /\ \A a \in Address : voting_power[a] \in Nat
           /\ \A a : IsFiniteSet(Delegators(a)) /\ Delegators(a) \subseteq Address
<1>1. IsFiniteSet(Address)
  BY GovernanceAssumption
<1>2. \A a \in Address : voting_power[a] \in Nat
  BY DEF IInv, TypeOK
<1>3. ASSUME NEW a PROVE IsFiniteSet(Delegators(a)) /\ Delegators(a) \subseteq Address
  <2>1. Delegators(a) \in SUBSET Address
    BY DEF Delegators
  <2> QED
    BY <1>1, <2>1, FS_Subset
<1> QED
  BY <1>1, <1>2, <1>3

\* What is left of an undisturbed delegatee when delegator is withdrawn: the powers of
\* the others, because what it had received contains the power that is taken away.
LEMMA WithdrawnLeaves ==
    ASSUME IInv, NEW delegator \in Address
    PROVE  /\ Withdrawn(delegator) \in [Address -> 0 .. MaxPower]
           /\ \A a \in Address \ disturbed :
                 Withdrawn(delegator)[a] =
                     SumFunctionOnSet(voting_power, Delegators(a) \ {delegator})
<1> DEFINE from == delegation[delegator]
           power == voting_power[delegator]
<1>1. /\ from \in Address \cup {NoOne} /\ power \in Nat /\ MaxPower \in Nat
      /\ delegated_power \in [Address -> 0 .. MaxPower]
  BY GovernanceAssumption DEF IInv, TypeOK
<1>2. /\ from = NoOne => Withdrawn(delegator) = delegated_power
      /\ from # NoOne => Withdrawn(delegator) = [delegated_power EXCEPT ![from] =
                                                    IF @ > power THEN @ - power ELSE 0]
  BY DEF Withdrawn
<1>3. Withdrawn(delegator) \in [Address -> 0 .. MaxPower]
  <2>1. CASE from = NoOne
    BY <1>1, <1>2, <2>1
  <2>2. CASE from # NoOne
    <3>1. (IF delegated_power[from] > power THEN delegated_power[from] - power ELSE 0)
             \in 0 .. MaxPower
      BY <1>1, <2>2
    <3> QED
      BY <1>1, <1>2, <2>2, <3>1
  <2> QED
    BY <2>1, <2>2
<1>4. ASSUME NEW a \in Address \ disturbed
      PROVE  Withdrawn(delegator)[a] =
                 SumFunctionOnSet(voting_power, Delegators(a) \ {delegator})
  <2>1. delegated_power[a] = SumFunctionOnSet(voting_power, Delegators(a))
    BY PowerByAddress DEF IInv, PowerOK
  <2>2. delegator \in Delegators(a) <=> from = a
    BY DEF Delegators
  <2>3. CASE from = a
    <3>1. from # NoOne
      BY <2>3, GovernanceAssumption
    <3>2. \A x \in Delegators(a) : voting_power[x] \in Nat /\ voting_power[x] \in Int
      BY PowerTypes
    <3>3. SumFunctionOnSet(voting_power, Delegators(a)) =
             power + SumFunctionOnSet(voting_power, Delegators(a) \ {delegator})
      BY <2>2, <2>3, <3>2, PowerTypes, SumRemove
    <3>4. SumFunctionOnSet(voting_power, Delegators(a) \ {delegator}) \in Nat
      <4>1. IsFiniteSet(Delegators(a) \ {delegator})
        BY PowerTypes, FS_Subset
      <4> QED
        BY <3>2, <4>1, SumNatural
    <3>5. Withdrawn(delegator)[a] = IF delegated_power[a] > power
                                    THEN delegated_power[a] - power ELSE 0
      BY <1>1, <1>2, <2>3, <3>1
    <3> HIDE DEF power
    <3> QED
      BY <1>1, <2>1, <3>3, <3>4, <3>5
  <2>4. CASE from # a
    <3>1. Delegators(a) \ {delegator} = Delegators(a)
      BY <2>2, <2>4
    <3>2. Withdrawn(delegator)[a] = delegated_power[a]
      BY <1>1, <1>2, <2>4
    <3> QED
      BY <2>1, <3>1, <3>2
  <2> QED
    BY <2>3, <2>4
<1> QED
  BY <1>3, <1>4

\* A change of somebody's power moves the supply with it; his delegatee, whose received
\* power is left as it was, is disturbed unless the power is the same.
LEMMA SetVotingPowerKeeps ==
    ASSUME IInv, NEW voter \in Address, NEW power \in Powers, SetVotingPower(voter, power)
    PROVE  IInv'
<1>0. /\ voting_power' = [voting_power EXCEPT ![voter] = power]
      /\ total_supply' = total_supply - voting_power[voter] + power
      /\ disturbed' = IF power = voting_power[voter] THEN disturbed
                      ELSE disturbed \cup ({delegation[voter]} \ {NoOne})
      /\ delegation' = delegation /\ delegated_power' = delegated_power
      /\ UNCHANGED <<now, config, guardians, ballotVars, approvals>>
  BY DEF SetVotingPower
<1>1. /\ IsFiniteSet(Address) /\ power \in Nat
      /\ voting_power \in [Address -> Nat]
      /\ voting_power' \in [Address -> Nat]
      /\ \A a \in Address \ {voter} : voting_power'[a] = voting_power[a]
      /\ voting_power'[voter] = power
  BY <1>0, GovernanceAssumption DEF IInv, TypeOK
<1>2. /\ total_supply = SumFunctionOnSet(voting_power, Address)
      /\ voting_power[voter] <= total_supply
  <2>1. total_supply = SumFunctionOnSet(voting_power, Address)
    BY SupplySum DEF IInv, PowerAccounted
  <2>2. voting_power[voter] <= SumFunctionOnSet(voting_power, Address)
    BY <1>1, SumNatural
  <2> QED
    BY <2>1, <2>2
<1>3. total_supply' \in Nat
  <2>1. total_supply \in Nat /\ voting_power[voter] \in Nat
    BY <1>1 DEF IInv, TypeOK
  <2> QED
    BY <1>0, <1>1, <1>2, <2>1
<1>4. disturbed' \in SUBSET Address /\ disturbed \subseteq disturbed'
  BY <1>0 DEF IInv, TypeOK
<1>5. TypeOK'
  BY <1>0, <1>1, <1>3, <1>4 DEF IInv, TypeOK, ballotVars
<1>6. total_supply' = SumFunction(voting_power')
  <2>1. SumFunctionOnSet(voting_power', Address) =
           SumFunctionOnSet(voting_power, Address) + voting_power'[voter] - voting_power[voter]
    <3>1. \A a \in Address : voting_power[a] \in Int /\ voting_power'[a] \in Int
      BY <1>1
    <3> QED
      BY <1>1, <3>1, SumChange
  <2>2. SumFunction(voting_power') = SumFunctionOnSet(voting_power', Address)
    BY <1>1 DEF SumFunction
  <2>3. total_supply \in Int /\ voting_power[voter] \in Int
    BY <1>1 DEF IInv, TypeOK
  <2> QED
    BY <1>0, <1>1, <1>2, <2>1, <2>2, <2>3
<1>7. ASSUME NEW a \in Address \ disturbed' PROVE PowerOK(a)'
  <2>1. delegated_power[a] = SumFunctionOnSet(voting_power, Delegators(a))
    BY <1>4, PowerByAddress DEF IInv, PowerOK
  <2>2. Delegators(a)' = Delegators(a)
    BY <1>0 DEF Delegators
  <2>3. \A d \in Delegators(a) : voting_power[d] = voting_power'[d]
    <3> SUFFICES ASSUME NEW d \in Delegators(a) PROVE voting_power[d] = voting_power'[d]
      OBVIOUS
    <3>1. d \in Address /\ delegation[d] = a /\ a # NoOne
      BY GovernanceAssumption DEF Delegators
    <3>2. CASE d = voter
      <4>1. power = voting_power[voter]
        BY <1>0, <3>1, <3>2
      <4> QED
        BY <1>1, <3>2, <4>1
    <3>3. CASE d # voter
      BY <1>1, <3>1, <3>3
    <3> QED
      BY <3>2, <3>3
  <2>4. SumFunctionOnSet(voting_power, Delegators(a)) =
           SumFunctionOnSet(voting_power', Delegators(a))
    BY <2>3, PowerTypes, SumEqual
  <2> QED
    BY <1>0, <2>1, <2>2, <2>4 DEF PowerOK
<1>8. PowerAccounted'
  <2>1. /\ total_supply' = SumFunction(voting_power')
        /\ \A a \in Address \ disturbed' : PowerOK(a)'
    BY <1>6, <1>7
  <2> QED
    BY <2>1 DEF PowerAccounted, PowerOK, Delegators
<1>9. BallotsCounted' /\ Unborn' /\ \A id \in ProposalId : Begun(id)' /\ Decided(id)'
  BY <1>0, <1>5, BallotsKept DEF TypeOK
<1> QED
  BY <1>5, <1>8, <1>9 DEF IInv

\* Delegating takes the power from the old delegatee before it gives it to the new one,
\* who may be the same.
LEMMA DelegateKeeps ==
    ASSUME IInv, NEW delegator \in Address, NEW delegatee \in Address,
           DelegateVotes(delegator, delegatee)
    PROVE  IInv'
<1> DEFINE w == Withdrawn(delegator)
           power == voting_power[delegator]
<1>0. /\ w[delegatee] + power <= MaxPower
      /\ delegation' = [delegation EXCEPT ![delegator] = delegatee]
      /\ delegated_power' = [w EXCEPT ![delegatee] = @ + power]
      /\ UNCHANGED <<now, config, voting_power, total_supply, disturbed, guardians, ballotVars,
                     approvals>>
  BY DEF DelegateVotes
<1>1. /\ w \in [Address -> 0 .. MaxPower]
      /\ \A a \in Address \ disturbed :
            w[a] = SumFunctionOnSet(voting_power, Delegators(a) \ {delegator})
  BY WithdrawnLeaves
<1> HIDE DEF w
<1>2. power \in Nat /\ MaxPower \in Nat /\ delegation \in [Address -> Address \cup {NoOne}]
  BY GovernanceAssumption DEF IInv, TypeOK
<1>3. delegated_power' \in [Address -> 0 .. MaxPower]
  <2>1. w[delegatee] + power \in 0 .. MaxPower
    BY <1>0, <1>1, <1>2
  <2> QED
    BY <1>0, <1>1, <2>1
<1>4. delegation' \in [Address -> Address \cup {NoOne}]
  BY <1>0, <1>2
<1>5. TypeOK'
  BY <1>0, <1>3, <1>4 DEF IInv, TypeOK, ballotVars
<1>6. ASSUME NEW a \in Address \ disturbed PROVE PowerOK(a)'
  <2> DEFINE rest == Delegators(a) \ {delegator}
  <2>1. /\ IsFiniteSet(rest) /\ delegator \notin rest
        /\ \A x \in rest \cup {delegator} : voting_power[x] \in Int
    <3>1. IsFiniteSet(Delegators(a)) /\ Delegators(a) \subseteq Address
      BY PowerTypes
    <3>2. IsFiniteSet(rest)
      BY <3>1, FS_Subset
    <3>3. \A x \in Address : voting_power[x] \in Int
      BY PowerTypes
    <3> QED
      BY <3>1, <3>2, <3>3
  <2>2. w[a] = SumFunctionOnSet(voting_power, rest)
    BY <1>1
  <2>3. Delegators(a)' = IF a = delegatee THEN rest \cup {delegator} ELSE rest
    BY <1>0, <1>2 DEF Delegators
  <2> HIDE DEF rest
  <2>4. CASE a = delegatee
    <3>1. SumFunctionOnSet(voting_power, rest \cup {delegator}) =
             power + SumFunctionOnSet(voting_power, rest)
      BY <2>1, SumAdd
    <3>2. delegated_power'[a] = w[a] + power
      BY <1>0, <1>1, <2>4
    <3>3. w[a] \in Int
      BY <1>1
    <3>4. delegated_power'[a] = SumFunctionOnSet(voting_power, rest \cup {delegator})
      BY <1>2, <2>2, <3>1, <3>2, <3>3
    <3> QED
      BY <1>0, <2>3, <2>4, <3>4 DEF PowerOK
  <2>5. CASE a # delegatee
    <3>1. delegated_power'[a] = w[a]
      BY <1>0, <1>1, <2>5
    <3> QED
      BY <1>0, <2>2, <2>3, <2>5, <3>1 DEF PowerOK
  <2> QED
    BY <2>4, <2>5
<1>7. PowerAccounted'
  <2>1. total_supply' = SumFunction(voting_power')
    BY <1>0 DEF IInv, PowerAccounted
  <2>2. \A a \in Address \ disturbed' : PowerOK(a)'
    BY <1>0, <1>6
  <2> QED
    BY <2>1, <2>2 DEF PowerAccounted, PowerOK, Delegators
<1>8. now' \in 0 .. MaxNow /\ now' >= now
  BY <1>0 DEF IInv, TypeOK
<1>9. BallotsCounted' /\ Unborn' /\ \A id \in ProposalId : Begun(id)' /\ Decided(id)'
  BY <1>0, <1>8, BallotsKept
<1> QED
  BY <1>5, <1>7, <1>9 DEF IInv

\* Withdrawing without delegating anew.
LEMMA UndelegateKeeps ==
    ASSUME IInv, NEW delegator \in Address, UndelegateVotes(delegator)
    PROVE  IInv'
<1> DEFINE w == Withdrawn(delegator)
<1>0. /\ delegated_power' = w
      /\ delegation' = [delegation EXCEPT ![delegator] = NoOne]
      /\ UNCHANGED <<now, config, voting_power, total_supply, disturbed, guardians, ballotVars,
                     approvals>>
  BY DEF UndelegateVotes
<1>1. /\ w \in [Address -> 0 .. MaxPower]
      /\ \A a \in Address \ disturbed :
            w[a] = SumFunctionOnSet(voting_power, Delegators(a) \ {delegator})
  BY WithdrawnLeaves
<1> HIDE DEF w
<1>2. delegation' \in [Address -> Address \cup {NoOne}]
  BY <1>0 DEF IInv, TypeOK
<1>3. TypeOK'
  BY <1>0, <1>1, <1>2 DEF IInv, TypeOK, ballotVars
<1>4. ASSUME NEW a \in Address \ disturbed PROVE PowerOK(a)'
  <2>1. Delegators(a)' = Delegators(a) \ {delegator}
    BY <1>0, GovernanceAssumption DEF Delegators, IInv, TypeOK
  <2> QED
    BY <1>0, <1>1, <2>1 DEF PowerOK
<1>5. PowerAccounted'
  <2>1. total_supply' = SumFunction(voting_power')
    BY <1>0 DEF IInv, PowerAccounted
  <2>2. \A a \in Address \ disturbed' : PowerOK(a)'
    BY <1>0, <1>4
  <2> QED
    BY <2>1, <2>2 DEF PowerAccounted, PowerOK, Delegators
<1>6. now' \in 0 .. MaxNow /\ now' >= now
  BY <1>0 DEF IInv, TypeOK
<1>7. BallotsCounted' /\ Unborn' /\ \A id \in ProposalId : Begun(id)' /\ Decided(id)'
  BY <1>0, <1>6, BallotsKept
<1> QED
  BY <1>3, <1>5, <1>7 DEF IInv

\* Guardians, the configuration and the clock touch neither powers nor ballots.
LEMMA OthersKeep ==
    ASSUME IInv, UNCHANGED <<powerVars, ballotVars>>, now' \in 0 .. MaxNow, now' >= now,
           config' \in GovernanceConfig, Valid(config'), guardians' \subseteq Address,
           approvals' \in [ProposalId -> SUBSET Address]
    PROVE  IInv'
<1>1. TypeOK'
  BY DEF IInv, TypeOK, powerVars, ballotVars, Valid
<1>2. PowerAccounted'
  BY PowerKept DEF IInv
<1>3. BallotsCounted' /\ Unborn' /\ \A id \in ProposalId : Begun(id)' /\ Decided(id)'
  BY BallotsKept
<1> QED
  BY <1>1, <1>2, <1>3 DEF IInv

-----------------------------------------------------------------------------
(***************************************************************************)
(* Proposals and votes.                                                    *)
(***************************************************************************)

\* A proposal that has a status was created, and has all the fields of one.
LEMMA Created ==
    ASSUME IInv, NEW id \in ProposalId, Status(id) # "None"
    PROVE  proposals[id] \in Proposal /\ id < proposal_count
<1>1. proposals[id] \in Proposal
  BY DEF IInv, TypeOK, NoProposal, Status
<1>2. ~(id >= proposal_count)
  BY DEF IInv, Unborn, Status, NoProposal
<1>3. id \in Int /\ proposal_count \in Int
  BY GovernanceAssumption DEF ProposalId, IInv, TypeOK
<1> QED
  BY <1>1, <1>2, <1>3

\* A step that rewrites a created proposal, but neither its tally nor its times, keeps the
\* invariant if the new status is entitled to them.
LEMMA RecordStep ==
    ASSUME IInv, NEW id \in ProposalId, Status(id) # "None", NEW p \in Proposal,
           proposals' = [proposals EXCEPT ![id] = p],
           UNCHANGED <<now, config, powerVars, guardians, proposal_count, votes, approvals>>,
           p.tally = proposals[id].tally,
           p.start_time = proposals[id].start_time, p.end_time = proposals[id].end_time,
           p.status \in {"Active", "Passed", "Queued"} => now >= p.start_time,
           p.status \in {"Passed", "Queued"} => now > p.end_time /\ Won(p)
    PROVE  IInv'
<1>1. proposals \in [ProposalId -> Proposal \cup {NoProposal}]
  BY DEF IInv, TypeOK
<1>2. /\ proposals' \in [ProposalId -> Proposal \cup {NoProposal}]
      /\ proposals'[id] = p
      /\ \A x \in ProposalId \ {id} : proposals'[x] = proposals[x]
  BY <1>1
<1>3. TypeOK'
  BY <1>2 DEF IInv, TypeOK, powerVars, Valid
<1>4. PowerAccounted'
  BY PowerKept DEF IInv
<1>5. ASSUME NEW x \in ProposalId PROVE TallyOK(x)'
  <2>1. TallyOK(x)
    BY BallotsByProposal DEF IInv
  <2>2. proposals'[x].tally = proposals[x].tally
    BY <1>2
  <2> QED
    BY <2>1, <2>2 DEF TallyOK, Weight, Voters
<1>6. BallotsCounted'
  BY <1>5 DEF BallotsCounted, TallyOK, Weight, Voters, RootHeld
<1>7. Unborn'
  <2> SUFFICES ASSUME NEW x \in ProposalId
               PROVE  /\ x >= proposal_count' => proposals'[x] = NoProposal
                      /\ Status(x)' = "None" => \A a \in Address : votes'[x][a] = NoVote
    BY DEF Unborn
  <2>1. CASE x = id
    <3>1. id < proposal_count /\ id \in Int /\ proposal_count \in Int
      BY Created, GovernanceAssumption DEF ProposalId, IInv, TypeOK
    <3>2. p.status # "None"
      BY DEF Proposal, Undecided, Finished
    <3> QED
      BY <1>2, <2>1, <3>1, <3>2 DEF Status
  <2>2. CASE x # id
    BY <1>2, <2>2 DEF IInv, Unborn, Status
  <2> QED
    BY <2>1, <2>2
<1>8. ASSUME NEW x \in ProposalId PROVE Begun(x)' /\ Decided(x)'
  <2>1. CASE x = id
    BY <1>2, <2>1 DEF Begun, Decided, Status
  <2>2. CASE x # id
    BY <1>2, <2>2 DEF IInv, Begun, Decided, Status
  <2> QED
    BY <2>1, <2>2
<1> QED
  BY <1>3, <1>4, <1>6, <1>7, <1>8 DEF IInv

\* Who won is read from the tally and what it was decided upon.
LEMMA WonByTally ==
    ASSUME NEW p, NEW q, p.tally = q.tally, p.basis = q.basis, Won(q)
    PROVE  Won(p)
BY DEF Won

\* The same, where only the status changes.
LEMMA BecomesKeeps ==
    ASSUME IInv, NEW id \in ProposalId, NEW status \in Undecided \cup Finished,
           Status(id) # "None", Becomes(id, status),
           status \in {"Active", "Passed", "Queued"} => now >= proposals[id].start_time,
           status \notin {"Passed", "Queued"}
    PROVE  IInv'
<1> DEFINE p == [proposals[id] EXCEPT !.status = status]
<1>1. proposals[id] \in Proposal
  BY Created
<1>2. /\ p \in Proposal /\ p.status = status /\ p.tally = proposals[id].tally
      /\ p.start_time = proposals[id].start_time /\ p.end_time = proposals[id].end_time
  BY <1>1 DEF Proposal
<1>3. /\ proposals' = [proposals EXCEPT ![id] = p]
      /\ UNCHANGED <<now, config, powerVars, guardians, proposal_count, votes, approvals>>
  BY DEF Becomes
<1> HIDE DEF p
<1> QED
  BY <1>2, <1>3, RecordStep

\* A rounded share that reaches a number of basis points does so unrounded.
LEMMA ShareReaches ==
    ASSUME NEW part \in Nat, NEW whole \in Nat \ {0}, NEW bps \in Nat,
           (part * Full) \div whole >= bps
    PROVE  part * Full >= bps * whole
<1> DEFINE n == part * Full
<1>1. n \in Nat
  BY DEF Full
<1> HIDE DEF n
<1>2. n \div whole \in Nat /\ whole * (n \div whole) <= n
  BY <1>1, DivisionBounds
<1> DEFINE share == n \div whole
<1>3. share >= bps
  BY DEF n
<1> HIDE DEF share
<1>4. share \in Nat /\ whole * share <= n
  BY <1>2 DEF share
<1>5. bps * whole <= whole * share
  BY ONLY <1>3, <1>4, whole \in Nat, bps \in Nat
<1>6. bps * whole \in Int /\ whole * share \in Int
  BY ONLY <1>4, whole \in Nat, bps \in Nat
<1>7. n >= bps * whole
  BY ONLY <1>1, <1>4, <1>5, <1>6
<1> QED
  BY <1>7 DEF n

\* A tally that passes wins by the supply and the thresholds of that moment.
LEMMA PassesWins ==
    ASSUME IInv, NEW id \in ProposalId, Status(id) # "None", Passes(proposals[id].tally),
           NEW p, p.tally = proposals[id].tally,
           p.basis = [total_supply |-> total_supply, quorum_bps |-> config.quorum_bps,
                      pass_threshold_bps |-> config.pass_threshold_bps]
    PROVE  Won(p)
<1> DEFINE tally == proposals[id].tally
           decided == tally["For"] + tally["Against"]
           total == decided + tally["Abstain"]
<1>1. tally["For"] \in Nat /\ tally["Against"] \in Nat /\ tally["Abstain"] \in Nat
  <2>1. tally \in [Choice -> Nat]
    BY Created DEF Proposal
  <2> QED
    BY <2>1 DEF Choice
<1>2. /\ total_supply > 0 /\ (total * Full) \div total_supply >= config.quorum_bps
      /\ decided > 0
      /\ (tally["For"] * Full) \div decided >= config.pass_threshold_bps
  BY DEF Passes
<1>3. total_supply \in Nat /\ config.quorum_bps \in Nat /\ config.pass_threshold_bps \in Nat
  BY DEF IInv, TypeOK, GovernanceConfig
<1>4. p.tally = tally
  OBVIOUS
<1> HIDE DEF tally
<1>5. decided \in Nat /\ total \in Nat
  BY <1>1
<1>6. total * Full >= config.quorum_bps * total_supply
  <2> HIDE DEF decided, total
  <2>1. total_supply \in Nat \ {0}
    BY <1>2, <1>3
  <2> QED
    BY <1>2, <1>3, <1>5, <2>1, ShareReaches
<1>7. tally["For"] * Full >= config.pass_threshold_bps * decided
  <2> HIDE DEF decided
  <2>1. decided \in Nat \ {0}
    BY <1>2, <1>5
  <2> QED
    BY <1>1, <1>2, <1>3, <2>1, ShareReaches
<1>8. /\ p.basis.total_supply = total_supply /\ p.basis.quorum_bps = config.quorum_bps
      /\ p.basis.pass_threshold_bps = config.pass_threshold_bps
  OBVIOUS
<1> QED
  BY <1>2, <1>4, <1>6, <1>7, <1>8 DEF Won

\* A vote begins no earlier than its start.
LEMMA ActivateKeeps ==
    ASSUME IInv, NEW id \in ProposalId, ActivateProposal(id)
    PROVE  IInv'
<1>1. Status(id) = "Pending" /\ now >= proposals[id].start_time /\ Becomes(id, "Active")
  BY DEF ActivateProposal
<1>2. "Active" \in Undecided \cup Finished
  BY DEF Undecided
<1> QED
  BY <1>1, <1>2, BecomesKeeps

\* A vote is decided after its end.
LEMMA FinalizeKeeps ==
    ASSUME IInv, NEW id \in ProposalId, FinalizeProposal(id)
    PROVE  IInv'
<1> DEFINE status == IF Passes(proposals[id].tally) THEN "Passed" ELSE "Failed"
           basis == [total_supply |-> total_supply, quorum_bps |-> config.quorum_bps,
                     pass_threshold_bps |-> config.pass_threshold_bps]
           p == [proposals[id] EXCEPT !.status = status, !.basis = basis]
<1>1. /\ Status(id) = "Active" /\ now > proposals[id].end_time
      /\ proposals' = [proposals EXCEPT ![id].status = status, ![id].basis = basis]
      /\ UNCHANGED <<now, config, powerVars, guardians, proposal_count, votes, approvals>>
  BY DEF FinalizeProposal, Decide
<1>2. now >= proposals[id].start_time
  BY <1>1 DEF IInv, Begun
<1>3. status \in Undecided \cup Finished
  BY DEF Undecided, Finished
<1>4. basis \in Basis
  BY DEF IInv, TypeOK, GovernanceConfig, Basis
<1>5. proposals[id] \in Proposal
  BY <1>1, Created
<1>6. status = "Passed" => Passes(proposals[id].tally)
  OBVIOUS
<1>7. status # "Queued"
  OBVIOUS
<1>8. ASSUME NEW q, q.tally = proposals[id].tally, q.basis = basis, status = "Passed"
      PROVE  Won(q)
  BY <1>1, <1>6, <1>8, PassesWins
<1> HIDE DEF status, basis
<1>9. /\ p \in Proposal /\ p.status = status /\ p.tally = proposals[id].tally
      /\ p.start_time = proposals[id].start_time /\ p.end_time = proposals[id].end_time
      /\ p.basis = basis
  BY <1>3, <1>4, <1>5 DEF Proposal
<1>10. proposals' = [proposals EXCEPT ![id] = p]
  BY <1>1 DEF IInv, TypeOK
<1> HIDE DEF p
<1>11. p.status \in {"Passed", "Queued"} => Won(p)
  BY <1>7, <1>8, <1>9
<1> QED
  BY <1>1, <1>2, <1>9, <1>10, <1>11, RecordStep

\* Queueing sets the timelock and keeps the result.
LEMMA QueueKeeps ==
    ASSUME IInv, NEW id \in ProposalId, QueueProposal(id)
    PROVE  IInv'
<1> DEFINE after == now + config.timelock_delay
           p == [proposals[id] EXCEPT !.status = "Queued", !.execute_after = after]
<1>1. /\ Status(id) = "Passed"
      /\ proposals' = [proposals EXCEPT ![id].status = "Queued", ![id].execute_after = after]
      /\ UNCHANGED <<now, config, powerVars, guardians, proposal_count, votes, approvals>>
  BY DEF QueueProposal
<1>2. after \in Nat
  <2>1. now \in Nat /\ config.timelock_delay \in Nat
    BY GovernanceAssumption DEF IInv, TypeOK, GovernanceConfig
  <2> QED
    BY <2>1
<1> HIDE DEF after
<1>3. proposals[id] \in Proposal
  BY <1>1, Created
<1>4. /\ p \in Proposal /\ p.status = "Queued" /\ p.tally = proposals[id].tally
      /\ p.start_time = proposals[id].start_time /\ p.end_time = proposals[id].end_time
      /\ p.basis = proposals[id].basis
  BY <1>2, <1>3 DEF Proposal, Undecided
<1>5. proposals' = [proposals EXCEPT ![id] = p]
  BY <1>1 DEF IInv, TypeOK
<1>6. /\ now >= proposals[id].start_time /\ now > proposals[id].end_time
      /\ Won(proposals[id])
  BY <1>1 DEF IInv, Begun, Decided
<1> HIDE DEF p
<1>7. Won(p)
  BY <1>4, <1>6, WonByTally
<1> QED
  BY <1>1, <1>4, <1>5, <1>6, <1>7, RecordStep

\* Execution by either way.
LEMMA ExecuteKeeps ==
    ASSUME IInv, NEW id \in ProposalId, Status(id) # "None", Execute(id)
    PROVE  IInv'
<1> DEFINE p == [proposals[id] EXCEPT !.status = "Executed", !.executed_at = now]
<1>1. /\ proposals' = [proposals EXCEPT ![id].status = "Executed", ![id].executed_at = now]
      /\ UNCHANGED <<now, config, powerVars, guardians, proposal_count, votes, approvals>>
  BY DEF Execute
<1>2. now \in Nat
  BY GovernanceAssumption DEF IInv, TypeOK
<1>3. proposals[id] \in Proposal
  BY Created
<1>4. /\ p \in Proposal /\ p.status = "Executed" /\ p.tally = proposals[id].tally
      /\ p.start_time = proposals[id].start_time /\ p.end_time = proposals[id].end_time
  BY <1>2, <1>3 DEF Proposal, Finished
<1>5. proposals' = [proposals EXCEPT ![id] = p]
  BY <1>1 DEF IInv, TypeOK
<1> HIDE DEF p
<1> QED
  BY <1>1, <1>4, <1>5, RecordStep

\* Cancelling keeps the tally.
LEMMA CancelKeeps ==
    ASSUME IInv, NEW caller \in Address, NEW id \in ProposalId, CancelProposal(caller, id)
    PROVE  IInv'
<1>1. Status(id) \in Undecided /\ Becomes(id, "Cancelled")
  BY DEF CancelProposal
<1>2. Status(id) # "None" /\ "Cancelled" \in Undecided \cup Finished
  BY <1>1 DEF Undecided, Finished
<1> QED
  BY <1>1, <1>2, BecomesKeeps

\* A new proposal takes the first free id, on which nobody has voted.
LEMMA CreateKeeps ==
    ASSUME IInv, NEW caller \in Address, NEW type \in Types, CreateProposal(caller, type)
    PROVE  IInv'
<1> DEFINE id == proposal_count
           start == now + config.voting_delay
           p == [status |-> "Pending", proposer |-> caller, proposal_type |-> type,
                 tally |-> [c \in Choice |-> 0], start_time |-> start,
                 end_time |-> start + config.voting_period, execute_after |-> 0,
                 executed_at |-> 0, basis |-> NoBasis]
<1>1. /\ id < MaxProposals
      /\ proposal_count' = id + 1
      /\ proposals' = [proposals EXCEPT ![id] = p]
      /\ UNCHANGED <<now, config, powerVars, guardians, votes, approvals>>
  BY DEF CreateProposal
<1>2. id \in Nat /\ MaxProposals \in Nat /\ id \in ProposalId
  BY <1>1, GovernanceAssumption DEF IInv, TypeOK, ProposalId
<1>3. start \in Nat /\ start + config.voting_period \in Nat
  <2>1. now \in Nat /\ config.voting_delay \in Nat /\ config.voting_period \in Nat
    BY GovernanceAssumption DEF IInv, TypeOK, GovernanceConfig
  <2> QED
    BY <2>1
<1>4. p \in Proposal /\ p.status = "Pending" /\ \A c \in Choice : p.tally[c] = 0
  <2>1. type \in ProposalType
    BY GovernanceAssumption
  <2>2. NoBasis \in Basis
    BY DEF Basis, NoBasis
  <2> HIDE DEF start
  <2> QED
    BY <1>3, <2>1, <2>2 DEF Proposal, Undecided
<1> HIDE DEF p, start
<1>5. Status(id) = "None"
  BY <1>2 DEF IInv, Unborn, Status, NoProposal
<1>6. /\ proposals' \in [ProposalId -> Proposal \cup {NoProposal}]
      /\ proposals'[id] = p
      /\ \A x \in ProposalId \ {id} : proposals'[x] = proposals[x]
  BY <1>1, <1>2, <1>4 DEF IInv, TypeOK
<1>7. TypeOK'
  <2>1. proposal_count' \in 0 .. MaxProposals
    BY <1>1, <1>2
  <2> QED
    BY <1>1, <1>6, <2>1 DEF IInv, TypeOK, powerVars, Valid
<1>8. PowerAccounted'
  BY <1>1, PowerKept DEF IInv
<1>9. \A a \in Address : votes[id][a] = NoVote
  BY <1>2, <1>5 DEF IInv, Unborn
<1>10. ASSUME NEW x \in ProposalId PROVE TallyOK(x)'
  <2>1. TallyOK(x)
    BY BallotsByProposal DEF IInv
  <2>2. CASE x # id
    <3>1. proposals'[x] = proposals[x] /\ votes' = votes
      BY <1>1, <1>6, <2>2
    <3> QED
      BY <2>1, <3>1 DEF TallyOK, Weight, Voters
  <2>3. CASE x = id
    <3>1. ASSUME NEW c \in Choice
          PROVE  SumFunctionOnSet(Weight(x), Voters(x, c)) = 0
      <4>1. Voters(x, c) = {}
        BY <1>9, <2>3 DEF Voters, NoVote, Choice
      <4> QED
        BY <4>1, SumEmpty
    <3>2. /\ Weight(x)' = Weight(x) /\ votes' = votes
          /\ \A c \in Choice : Voters(x, c)' = Voters(x, c) /\ proposals'[x].tally[c] = 0
      BY <1>1, <1>4, <1>6, <2>3 DEF Weight, Voters
    <3> QED
      BY <2>1, <3>1, <3>2 DEF TallyOK
  <2> QED
    BY <2>2, <2>3
<1>11. BallotsCounted'
  BY <1>10 DEF BallotsCounted, TallyOK, Weight, Voters, RootHeld
<1>12. Unborn'
  <2> SUFFICES ASSUME NEW x \in ProposalId
               PROVE  /\ x >= proposal_count' => proposals'[x] = NoProposal
                      /\ Status(x)' = "None" => \A a \in Address : votes'[x][a] = NoVote
    BY DEF Unborn
  <2>1. CASE x = id
    <3>1. ~(x >= proposal_count')
      BY <1>1, <1>2, <2>1
    <3>2. Status(x)' # "None"
      BY <1>4, <1>6, <2>1 DEF Status
    <3> QED
      BY <3>1, <3>2
  <2>2. CASE x # id
    <3>1. x \in Int /\ (x >= proposal_count' => x >= proposal_count)
      BY <1>1, <1>2 DEF ProposalId
    <3> QED
      BY <1>1, <1>6, <2>2, <3>1 DEF IInv, Unborn, Status
  <2> QED
    BY <2>1, <2>2
<1>13. ASSUME NEW x \in ProposalId PROVE Begun(x)' /\ Decided(x)'
  <2>1. CASE x = id
    BY <1>4, <1>6, <2>1 DEF Begun, Decided, Status
  <2>2. CASE x # id
    BY <1>1, <1>6, <2>2 DEF IInv, Begun, Decided, Status
  <2> QED
    BY <2>1, <2>2
<1> QED
  BY <1>7, <1>8, <1>11, <1>12, <1>13 DEF IInv

\* The power a voter votes with is a number.
LEMMA EffectivePowerType ==
    ASSUME IInv, NEW voter \in Address
    PROVE  EffectivePower(voter) \in Nat
<1>1. voting_power[voter] \in Nat /\ delegated_power[voter] \in Nat
  BY GovernanceAssumption DEF IInv, TypeOK
<1> QED
  BY <1>1 DEF EffectivePower

\* A ballot weighs the voter's power or its integer square root.
LEMMA BallotWeight ==
    ASSUME IInv, NEW voter \in Address, NEW choice \in Choice
    PROVE  /\ BallotOf(voter, choice) \in VoteRecord
           /\ BallotOf(voter, choice).choice = choice
           /\ RootHeld(BallotOf(voter, choice).effective_votes,
                       BallotOf(voter, choice).voting_power)
<1> DEFINE power == EffectivePower(voter)
           weight == IF config.use_quadratic THEN Isqrt(power) ELSE power
<1>1. power \in Nat
  BY EffectivePowerType
<1>2. BallotOf(voter, choice) =
         [choice |-> choice, voting_power |-> power, effective_votes |-> weight]
  BY DEF BallotOf
<1> HIDE DEF power
<1>3. /\ Isqrt(power) \in Nat
      /\ Isqrt(power) * Isqrt(power) <= power
      /\ power < (Isqrt(power) + 1) * (Isqrt(power) + 1)
  BY <1>1, IsqrtIsRoot
<1>4. weight \in Nat /\ (weight = power \/ weight = Isqrt(power))
  BY <1>1, <1>3
<1> HIDE DEF weight
<1>5. RootHeld(weight, power)
  BY <1>3, <1>4 DEF RootHeld
<1> QED
  BY <1>1, <1>2, <1>4, <1>5 DEF VoteRecord

\* A first vote adds its weight to one tally and the voter to one set of voters.
LEMMA CastKeeps ==
    ASSUME IInv, NEW voter \in Address, NEW id \in ProposalId, NEW choice \in Choice,
           CastVote(voter, id, choice)
    PROVE  IInv'
<1> DEFINE ballot == BallotOf(voter, choice)
           more == proposals[id].tally[choice] + ballot.effective_votes
           p == [proposals[id] EXCEPT !.tally = [@ EXCEPT ![choice] = more]]
<1>1. /\ Status(id) = "Active" /\ votes[id][voter].choice = "None"
      /\ votes' = [votes EXCEPT ![id][voter] = ballot]
      /\ proposals' = [proposals EXCEPT ![id].tally[choice] = @ + ballot.effective_votes]
      /\ UNCHANGED <<now, config, powerVars, guardians, proposal_count, approvals>>
  BY DEF CastVote, Count, Voted
<1>2. /\ ballot \in VoteRecord /\ ballot.choice = choice
      /\ RootHeld(ballot.effective_votes, ballot.voting_power)
  BY BallotWeight
<1> HIDE DEF ballot
<1>3. ballot.effective_votes \in Nat /\ ballot.effective_votes \in Int
  BY <1>2 DEF VoteRecord
<1>4. proposals[id] \in Proposal /\ proposals[id].tally \in [Choice -> Nat]
  BY <1>1, Created DEF Proposal
<1>5. more \in Nat
  BY <1>3, <1>4
<1>6. proposals' = [proposals EXCEPT ![id] = p]
  BY <1>1, <1>4 DEF IInv, TypeOK
<1>7. /\ p.tally = [proposals[id].tally EXCEPT ![choice] = more]
      /\ p.status = "Active"
      /\ p.start_time = proposals[id].start_time /\ p.end_time = proposals[id].end_time
  BY <1>1, <1>4 DEF Proposal, Status
<1>8. p \in Proposal
  <2> HIDE DEF more
  <2>1. [proposals[id].tally EXCEPT ![choice] = more] \in [Choice -> Nat]
    BY <1>4, <1>5
  <2> QED
    BY <1>4, <2>1 DEF Proposal
<1> HIDE DEF p, more
<1>9. /\ proposals' \in [ProposalId -> Proposal \cup {NoProposal}]
      /\ proposals'[id] = p
      /\ \A x \in ProposalId \ {id} : proposals'[x] = proposals[x]
  BY <1>6, <1>8 DEF IInv, TypeOK
<1>10. /\ votes' \in [ProposalId -> [Address -> VoteRecord \cup {NoVote}]]
       /\ votes'[id][voter] = ballot
       /\ \A a \in Address \ {voter} : votes'[id][a] = votes[id][a]
       /\ \A x \in ProposalId \ {id} : votes'[x] = votes[x]
  BY <1>1, <1>2 DEF IInv, TypeOK
<1>11. TypeOK'
  BY <1>1, <1>9, <1>10 DEF IInv, TypeOK, powerVars, Valid
<1>12. PowerAccounted'
  BY <1>1, PowerKept DEF IInv
<1>13. \A a \in Address : /\ Weight(id)[a] = votes[id][a].effective_votes
                          /\ Weight(id)'[a] = votes'[id][a].effective_votes
                          /\ votes[id][a].effective_votes \in Nat
  BY DEF Weight, IInv, TypeOK, VoteRecord, NoVote
<1>14. ASSUME NEW c \in Choice
       PROVE  p.tally[c] = SumFunctionOnSet(Weight(id)', Voters(id, c)')
  <2>1. proposals[id].tally[c] = SumFunctionOnSet(Weight(id), Voters(id, c))
    BY BallotsByProposal DEF IInv, TallyOK
  <2>2. /\ voter \notin Voters(id, c)
        /\ IsFiniteSet(Voters(id, c)) /\ Voters(id, c) \subseteq Address
    <3>1. Voters(id, c) \in SUBSET Address /\ voter \notin Voters(id, c)
      BY <1>1 DEF Voters, Choice
    <3> QED
      BY <3>1, GovernanceAssumption, FS_Subset
  <2>3. \A a \in Voters(id, c) : /\ Weight(id)'[a] = Weight(id)[a]
                                 /\ Weight(id)'[a] \in Int
    BY <1>10, <1>13, <2>2
  <2>4. SumFunctionOnSet(Weight(id)', Voters(id, c)) = SumFunctionOnSet(Weight(id), Voters(id, c))
    BY <2>2, <2>3, SumEqual
  <2>5. CASE c = choice
    <3>1. Voters(id, c)' = Voters(id, c) \cup {voter}
      BY <1>2, <1>10, <2>5 DEF Voters
    <3>2. Weight(id)'[voter] = ballot.effective_votes
      BY <1>10, <1>13
    <3>3. SumFunctionOnSet(Weight(id)', Voters(id, c) \cup {voter}) =
             ballot.effective_votes + SumFunctionOnSet(Weight(id)', Voters(id, c))
      BY <1>3, <2>2, <2>3, <3>2, SumAdd
    <3>4. p.tally[c] = proposals[id].tally[c] + ballot.effective_votes
      BY <1>4, <1>7, <2>5 DEF more
    <3>5. proposals[id].tally[c] \in Int
      BY <1>4
    <3> QED
      BY <1>3, <2>1, <2>4, <3>1, <3>3, <3>4, <3>5
  <2>6. CASE c # choice
    <3>1. Voters(id, c)' = Voters(id, c)
      BY <1>1, <1>2, <1>10, <2>6 DEF Voters, Choice
    <3>2. p.tally[c] = proposals[id].tally[c]
      BY <1>4, <1>7, <2>6
    <3> QED
      BY <2>1, <2>4, <3>1, <3>2
  <2> QED
    BY <2>5, <2>6
<1>15. ASSUME NEW x \in ProposalId PROVE TallyOK(x)'
  <2>1. TallyOK(x)
    BY BallotsByProposal DEF IInv
  <2>2. CASE x # id
    <3>1. proposals'[x] = proposals[x] /\ votes'[x] = votes[x]
      BY <1>9, <1>10, <2>2
    <3> QED
      BY <2>1, <3>1 DEF TallyOK, Weight, Voters
  <2>3. CASE x = id
    <3>1. ASSUME NEW a \in Address PROVE RootHeld(Weight(x)'[a], votes'[x][a].voting_power)
      <4>1. CASE a = voter
        BY <1>2, <1>10, <1>13, <2>3, <4>1
      <4>2. CASE a # voter
        BY <1>10, <1>13, <2>1, <2>3, <4>2 DEF TallyOK
      <4> QED
        BY <4>1, <4>2
    <3> QED
      BY <1>9, <1>14, <2>3, <3>1 DEF TallyOK
  <2> QED
    BY <2>2, <2>3
<1>16. BallotsCounted'
  BY <1>15 DEF BallotsCounted, TallyOK, Weight, Voters, RootHeld
<1>17. Unborn'
  <2> SUFFICES ASSUME NEW x \in ProposalId
               PROVE  /\ x >= proposal_count' => proposals'[x] = NoProposal
                      /\ Status(x)' = "None" => \A a \in Address : votes'[x][a] = NoVote
    BY DEF Unborn
  <2>1. CASE x = id
    <3>1. id < proposal_count /\ id \in Int /\ proposal_count \in Int
      BY <1>1, Created, GovernanceAssumption, SMTT(30) DEF ProposalId, IInv, TypeOK
    <3>2. Status(x)' = "Active"
      BY <1>7, <1>9, <2>1 DEF Status
    <3> QED
      BY <1>1, <2>1, <3>1, <3>2
  <2>2. CASE x # id
    BY <1>1, <1>9, <1>10, <2>2 DEF IInv, Unborn, Status
  <2> QED
    BY <2>1, <2>2
<1>18. ASSUME NEW x \in ProposalId PROVE Begun(x)' /\ Decided(x)'
  <2>1. Begun(x) /\ Decided(x)
    BY DEF IInv
  <2>2. CASE x = id
    BY <1>1, <1>7, <1>9, <2>1, <2>2 DEF Begun, Decided, Status
  <2>3. CASE x # id
    BY <1>1, <1>9, <2>1, <2>3 DEF Begun, Decided, Status
  <2> QED
    BY <2>2, <2>3
<1> QED
  BY <1>11, <1>12, <1>16, <1>17, <1>18 DEF IInv

-----------------------------------------------------------------------------
\* The calls only_admin guards keep the invariant.
LEMMA AdministerKeeps ==
    ASSUME IInv, Administer
    PROVE  IInv'
<1>1. ASSUME NEW a \in Address, NEW power \in Powers, SetVotingPower(a, power)
      PROVE  IInv'
  BY <1>1, SetVotingPowerKeeps
<1>2. ASSUME NEW a \in Candidates, NEW is_guardian \in BOOLEAN, SetGuardian(a, is_guardian)
      PROVE  IInv'
  <2>1. /\ guardians' = IF is_guardian THEN guardians \cup {a} ELSE guardians \ {a}
        /\ UNCHANGED <<now, config, powerVars, ballotVars, approvals>>
    BY <1>2 DEF SetGuardian
  <2>2. guardians' \subseteq Address
    BY <2>1, GovernanceAssumption DEF IInv, TypeOK
  <2>3. now' \in 0 .. MaxNow /\ now' >= now
    BY <2>1, GovernanceAssumption DEF IInv, TypeOK
  <2>4. /\ config' \in GovernanceConfig /\ Valid(config')
        /\ approvals' \in [ProposalId -> SUBSET Address]
    BY <2>1 DEF IInv, TypeOK
  <2> QED
    BY <2>1, <2>2, <2>3, <2>4, OthersKeep
<1>3. ASSUME NEW c \in Configs, UpdateConfig(c)
      PROVE  IInv'
  <2>1. /\ Valid(c) /\ config' = c
        /\ UNCHANGED <<now, powerVars, guardians, ballotVars, approvals>>
    BY <1>3 DEF UpdateConfig
  <2>2. now' \in 0 .. MaxNow /\ now' >= now
    BY <2>1, GovernanceAssumption DEF IInv, TypeOK
  <2>3. /\ config' \in GovernanceConfig /\ Valid(config') /\ guardians' \subseteq Address
        /\ approvals' \in [ProposalId -> SUBSET Address]
    BY <2>1, GovernanceAssumption DEF IInv, TypeOK
  <2> QED
    BY <2>1, <2>2, <2>3, OthersKeep
<1> QED
  BY <1>1, <1>2, <1>3 DEF Administer

\* An approval is added to those of its id.
LEMMA ApproveKeeps ==
    ASSUME IInv, NEW guardian \in Address, NEW id \in ProposalId, GuardianApprove(guardian, id)
    PROVE  IInv'
<1>1. /\ approvals' = [approvals EXCEPT ![id] = @ \cup {guardian}]
      /\ UNCHANGED <<now, config, powerVars, guardians, ballotVars>>
  BY DEF GuardianApprove
<1>2. approvals' \in [ProposalId -> SUBSET Address]
  BY <1>1 DEF IInv, TypeOK
<1>3. now' \in 0 .. MaxNow /\ now' >= now
  BY <1>1, GovernanceAssumption DEF IInv, TypeOK
<1>4. config' \in GovernanceConfig /\ Valid(config') /\ guardians' \subseteq Address
  BY <1>1 DEF IInv, TypeOK
<1> QED
  BY <1>1, <1>2, <1>3, <1>4, OthersKeep

\* Time passes.
LEMMA TickKeeps ==
    ASSUME IInv, Tick
    PROVE  IInv'
<1>1. /\ now < MaxNow /\ now' = now + 1
      /\ UNCHANGED <<config, powerVars, guardians, ballotVars, approvals>>
  BY DEF Tick
<1>2. now \in Nat /\ MaxNow \in Nat
  BY GovernanceAssumption DEF IInv, TypeOK
<1>3. now' \in 0 .. MaxNow /\ now' >= now
  BY <1>1, <1>2
<1>4. /\ config' \in GovernanceConfig /\ Valid(config') /\ guardians' \subseteq Address
      /\ approvals' \in [ProposalId -> SUBSET Address]
  BY <1>1 DEF IInv, TypeOK
<1> QED
  BY <1>1, <1>3, <1>4, OthersKeep

\* Every call keeps the invariant.
LEMMA NextIInv ==
    ASSUME IInv, [Next]_govVars
    PROVE  IInv'
<1>1. CASE Administer
  BY <1>1, AdministerKeeps
<1>2. ASSUME NEW caller \in Address, Delegate(caller)
      PROVE  IInv'
  BY <1>2, DelegateKeeps, UndelegateKeeps DEF Delegate
<1>3. ASSUME NEW caller \in Address, Vote(caller)
      PROVE  IInv'
  <2>1. ASSUME NEW id \in ProposalId, GuardianExecute(caller, id)
        PROVE  IInv'
    BY <2>1, ExecuteKeeps DEF GuardianExecute
  <2> QED
    BY <1>3, <2>1, CreateKeeps, CastKeeps, ApproveKeeps, CancelKeeps DEF Vote
<1>4. ASSUME NEW id \in ProposalId, Advance(id)
      PROVE  IInv'
  <2>1. ASSUME ExecuteProposal(id) PROVE IInv'
    BY <2>1, ExecuteKeeps DEF ExecuteProposal
  <2> QED
    BY <1>4, <2>1, ActivateKeeps, FinalizeKeeps, QueueKeeps DEF Advance
<1>5. CASE Tick
  BY <1>5, TickKeeps
<1>6. CASE UNCHANGED govVars
  <2>1. UNCHANGED <<now, config, guardians, powerVars, ballotVars, approvals>>
    BY <1>6 DEF govVars, powerVars, ballotVars
  <2>2. now' \in 0 .. MaxNow /\ now' >= now
    BY <2>1, GovernanceAssumption DEF IInv, TypeOK
  <2>3. /\ config' \in GovernanceConfig /\ Valid(config') /\ guardians' \subseteq Address
        /\ approvals' \in [ProposalId -> SUBSET Address]
    BY <2>1 DEF IInv, TypeOK
  <2> QED
    BY <2>1, <2>2, <2>3, OthersKeep
<1> QED
  BY <1>1, <1>2, <1>3, <1>4, <1>5, <1>6 DEF Next

\* The invariant holds in every reachable state.
LEMMA SpecIInv == Spec => []IInv
<1>1. Init => IInv
  BY InitIInv
<1>2. IInv /\ [Next]_govVars => IInv'
  BY NextIInv
<1> QED
  BY <1>1, <1>2, PTL DEF Spec

\* The contract's records have their types: no power, supply or tally is ever negative,
\* however delegations are made and withdrawn while powers change.
THEOREM TypesHold == Spec => []TypeOK
<1>1. IInv => TypeOK
  BY DEF IInv
<1> QED
  BY <1>1, SpecIInv, PTL

\* The supply is the sum of the powers, and a delegatee whose delegators' powers did not
\* change meanwhile holds exactly their sum.
THEOREM PowerIsAccounted == Spec => []PowerAccounted
<1>1. IInv => PowerAccounted
  BY DEF IInv
<1> QED
  BY <1>1, SpecIInv, PTL

\* The tallies are the sums of the votes recorded, each of the weight its power gives.
THEOREM BallotsAreCounted == Spec => []BallotsCounted
<1>1. IInv => BallotsCounted
  BY DEF IInv
<1> QED
  BY <1>1, SpecIInv, PTL

-----------------------------------------------------------------------------
\* What a step may do to one proposal.
Settles(id) ==      \* it begins, is decided, queued or cancelled
    /\ Status(id) \in Undecided
    /\ proposals'[id].status \in (Undecided \cup Finished) \ {"Executed"}
    /\ proposals'[id].tally = proposals[id].tally
Polls(id) ==        \* a vote is cast on it
    /\ Status(id) = "Active" /\ now <= proposals[id].end_time
    /\ proposals'[id].status = "Active"
Runs(id) ==         \* it is executed, by either way
    /\ proposals'[id].tally = proposals[id].tally
    /\ \/ Status(id) = "Queued" /\ now >= proposals[id].execute_after
       \/ /\ Status(id) \in {"Active", "Passed", "Queued"}
          /\ proposals[id].proposal_type = "EmergencyPause"
          /\ Cardinality(approvals[id]) >= config.guardian_threshold
Moves(id) ==
    \/ proposals'[id] = proposals[id]
    \/ Status(id) = "None" /\ proposals'[id].status = "Pending"
    \/ Settles(id) \/ Polls(id) \/ Runs(id)

\* A call for one proposal leaves the others alone.
LEMMA BecomesMoves ==
    ASSUME IInv, NEW id \in ProposalId, NEW x \in ProposalId,
           NEW status \in (Undecided \cup Finished) \ {"Executed"},
           Status(x) \in Undecided, Becomes(x, status)
    PROVE  Moves(id)
<1>1. proposals[x] \in Proposal
  BY Created DEF Undecided
<1>2. proposals' = [proposals EXCEPT ![x].status = status]
  BY DEF Becomes
<1>3. CASE id = x
  <2>1. proposals'[id].status = status /\ proposals'[id].tally = proposals[id].tally
    BY <1>1, <1>2, <1>3 DEF IInv, TypeOK, Proposal
  <2> QED
    BY <1>3, <2>1 DEF Moves, Settles
<1>4. CASE id # x
  BY <1>2, <1>4 DEF IInv, TypeOK, Moves
<1> QED
  BY <1>3, <1>4

\* An execution changes neither the tally nor another proposal.
LEMMA ExecuteMoves ==
    ASSUME IInv, NEW id \in ProposalId, NEW x \in ProposalId, Status(x) # "None", Execute(x),
           \/ Status(x) = "Queued" /\ now >= proposals[x].execute_after
           \/ /\ Status(x) \in {"Active", "Passed", "Queued"}
              /\ proposals[x].proposal_type = "EmergencyPause"
              /\ Cardinality(approvals[x]) >= config.guardian_threshold
    PROVE  Moves(id)
<1>1. proposals[x] \in Proposal
  BY Created
<1>2. proposals' = [proposals EXCEPT ![x].status = "Executed", ![x].executed_at = now]
  BY DEF Execute
<1>3. CASE id = x
  <2>1. proposals'[id].tally = proposals[id].tally
    BY <1>1, <1>2, <1>3 DEF IInv, TypeOK, Proposal
  <2> QED
    BY <1>3, <2>1 DEF Moves, Runs
<1>4. CASE id # x
  BY <1>2, <1>4 DEF IInv, TypeOK, Moves
<1> QED
  BY <1>3, <1>4

\* The decision keeps the tally.
LEMMA FinalizeMoves ==
    ASSUME IInv, NEW id \in ProposalId, NEW x \in ProposalId, FinalizeProposal(x)
    PROVE  Moves(id)
<1> DEFINE status == IF Passes(proposals[x].tally) THEN "Passed" ELSE "Failed"
           basis == [total_supply |-> total_supply, quorum_bps |-> config.quorum_bps,
                     pass_threshold_bps |-> config.pass_threshold_bps]
<1>1. /\ Status(x) = "Active"
      /\ proposals' = [proposals EXCEPT ![x].status = status, ![x].basis = basis]
  BY DEF FinalizeProposal, Decide
<1>2. status \in (Undecided \cup Finished) \ {"Executed"}
  BY DEF Undecided, Finished
<1> HIDE DEF status, basis
<1>3. proposals[x] \in Proposal
  BY <1>1, Created
<1>4. CASE id = x
  <2>1. proposals'[id].status = status /\ proposals'[id].tally = proposals[id].tally
    BY <1>1, <1>3, <1>4 DEF IInv, TypeOK, Proposal
  <2>2. Status(id) \in Undecided
    BY <1>1, <1>4 DEF Undecided
  <2> QED
    BY <1>2, <2>1, <2>2 DEF Moves, Settles
<1>5. CASE id # x
  BY <1>1, <1>5 DEF IInv, TypeOK, Moves
<1> QED
  BY <1>4, <1>5

\* Queueing keeps the tally.
LEMMA QueueMoves ==
    ASSUME IInv, NEW id \in ProposalId, NEW x \in ProposalId, QueueProposal(x)
    PROVE  Moves(id)
<1> DEFINE after == now + config.timelock_delay
<1>1. /\ Status(x) = "Passed"
      /\ proposals' = [proposals EXCEPT ![x].status = "Queued", ![x].execute_after = after]
  BY DEF QueueProposal
<1> HIDE DEF after
<1>2. proposals[x] \in Proposal
  BY <1>1, Created
<1>3. CASE id = x
  <2>1. proposals'[id].status = "Queued" /\ proposals'[id].tally = proposals[id].tally
    BY <1>1, <1>2, <1>3 DEF IInv, TypeOK, Proposal
  <2> QED
    BY <1>1, <1>3, <2>1 DEF Moves, Settles, Undecided
<1>4. CASE id # x
  BY <1>1, <1>4 DEF IInv, TypeOK, Moves
<1> QED
  BY <1>3, <1>4

\* A vote is cast while the window is open, and on one proposal.
LEMMA CastMoves ==
    ASSUME IInv, NEW id \in ProposalId, NEW x \in ProposalId, NEW voter \in Address,
           NEW choice \in Choice, CastVote(voter, x, choice)
    PROVE  Moves(id)
<1> DEFINE weight == BallotOf(voter, choice).effective_votes
<1>1. /\ Status(x) = "Active" /\ now \in proposals[x].start_time .. proposals[x].end_time
      /\ proposals' = [proposals EXCEPT ![x].tally[choice] = @ + weight]
  BY DEF CastVote, Count
<1> HIDE DEF weight
<1>2. proposals[x] \in Proposal
  BY <1>1, Created
<1>3. CASE id = x
  <2>1. proposals'[id].status = "Active"
    BY <1>1, <1>2, <1>3 DEF IInv, TypeOK, Proposal, Status
  <2>2. now <= proposals[id].end_time
    BY <1>1, <1>3
  <2> QED
    BY <1>1, <1>3, <2>1, <2>2 DEF Moves, Polls
<1>4. CASE id # x
  BY <1>1, <1>4 DEF IInv, TypeOK, Moves
<1> QED
  BY <1>3, <1>4

\* A new proposal takes an id that nobody holds.
LEMMA CreateMoves ==
    ASSUME IInv, NEW id \in ProposalId, NEW caller \in Address, NEW type \in Types,
           CreateProposal(caller, type)
    PROVE  Moves(id)
<1> DEFINE p == [status |-> "Pending", proposer |-> caller, proposal_type |-> type,
                 tally |-> [c \in Choice |-> 0], start_time |-> now + config.voting_delay,
                 end_time |-> now + config.voting_delay + config.voting_period,
                 execute_after |-> 0, executed_at |-> 0, basis |-> NoBasis]
<1>1. proposals' = [proposals EXCEPT ![proposal_count] = p]
  BY DEF CreateProposal
<1>2. p.status = "Pending"
  OBVIOUS
<1> HIDE DEF p
<1>3. CASE id = proposal_count
  <2>1. proposals'[id].status = "Pending"
    BY <1>1, <1>2, <1>3 DEF IInv, TypeOK
  <2>2. id >= proposal_count
    BY <1>3, GovernanceAssumption DEF ProposalId
  <2>3. Status(id) = "None"
    BY <2>2 DEF IInv, Unborn, Status, NoProposal
  <2> QED
    BY <2>1, <2>3 DEF Moves
<1>4. CASE id # proposal_count
  BY <1>1, <1>4 DEF IInv, TypeOK, Moves
<1> QED
  BY <1>3, <1>4

\* Every step does one of these to every proposal.
LEMMA NextMoves ==
    ASSUME IInv, [Next]_govVars, NEW id \in ProposalId
    PROVE  Moves(id)
<1>1. ASSUME UNCHANGED proposals PROVE Moves(id)
  BY <1>1 DEF Moves
<1>2. ASSUME UNCHANGED ballotVars PROVE Moves(id)
  BY <1>1, <1>2 DEF ballotVars
<1>3. CASE Administer
  BY <1>2, <1>3 DEF Administer, SetVotingPower, SetGuardian, UpdateConfig
<1>4. ASSUME NEW caller \in Address, Delegate(caller)
      PROVE  Moves(id)
  BY <1>2, <1>4 DEF Delegate, DelegateVotes, UndelegateVotes
<1>5. ASSUME NEW caller \in Address, Vote(caller)
      PROVE  Moves(id)
  <2>1. ASSUME NEW x \in ProposalId, GuardianApprove(caller, x)
        PROVE  Moves(id)
    BY <1>2, <2>1 DEF GuardianApprove
  <2>2. ASSUME NEW x \in ProposalId, GuardianExecute(caller, x)
        PROVE  Moves(id)
    BY <2>2, ExecuteMoves DEF GuardianExecute
  <2>3. ASSUME NEW x \in ProposalId, CancelProposal(caller, x)
        PROVE  Moves(id)
    <3>1. "Cancelled" \in (Undecided \cup Finished) \ {"Executed"}
      BY DEF Finished
    <3> QED
      BY <2>3, <3>1, BecomesMoves DEF CancelProposal
  <2> QED
    BY <1>5, <2>1, <2>2, <2>3, CreateMoves, CastMoves DEF Vote
<1>6. ASSUME NEW x \in ProposalId, Advance(x)
      PROVE  Moves(id)
  <2>1. ASSUME ActivateProposal(x) PROVE Moves(id)
    <3>1. "Active" \in (Undecided \cup Finished) \ {"Executed"} /\ "Pending" \in Undecided
      BY DEF Undecided
    <3> QED
      BY <2>1, <3>1, BecomesMoves DEF ActivateProposal
  <2>2. ASSUME FinalizeProposal(x) PROVE Moves(id)
    BY <2>2, FinalizeMoves
  <2>3. ASSUME ExecuteProposal(x) PROVE Moves(id)
    BY <2>3, ExecuteMoves DEF ExecuteProposal
  <2> QED
    BY <1>6, <2>1, <2>2, <2>3, QueueMoves DEF Advance
<1>7. CASE Tick
  BY <1>2, <1>7 DEF Tick
<1>8. CASE UNCHANGED govVars
  BY <1>1, <1>8 DEF govVars
<1> QED
  BY <1>3, <1>4, <1>5, <1>6, <1>7, <1>8 DEF Next

\* Only a vote that is over and won, after its timelock, or the guardians' approvals of an
\* emergency whose vote has begun lead to an execution.
THEOREM ExecutionIsJustified == Spec => ExecutionJustified
<1> DEFINE Justified(id) ==
               Status(id) # "Executed" /\ proposals'[id].status = "Executed" =>
                   \/ /\ Won(proposals[id])
                      /\ now > proposals[id].end_time
                      /\ now >= proposals[id].execute_after
                   \/ /\ proposals[id].proposal_type = "EmergencyPause"
                      /\ now >= proposals[id].start_time
                      /\ Cardinality(approvals[id]) >= config.guardian_threshold
           A == \A id \in ProposalId : Justified(id)
<1>1. ASSUME IInv, [Next]_govVars, NEW id \in ProposalId
      PROVE  Justified(id)
  <2>1. CASE Runs(id)
    BY <1>1, <2>1 DEF Runs, IInv, Begun, Decided
  <2>2. CASE ~Runs(id)
    BY <1>1, <2>2, NextMoves DEF Moves, Settles, Polls, Status
  <2> QED
    BY <2>1, <2>2
<1>2. IInv /\ [Next]_govVars => [A]_govVars
  BY <1>1
<1>3. [][A]_govVars => ExecutionJustified
  BY PTL DEF ExecutionJustified
<1> HIDE DEF A
<1> QED
  BY <1>2, <1>3, SpecIInv, PTL DEF Spec

\* What is decided for good stays so, and no vote is counted after the window.
THEOREM VoteIsClosed == Spec => VoteClosed
<1> DEFINE Closed(id) ==
               /\ Status(id) \in Finished => proposals'[id] = proposals[id]
               /\ Status(id) # "None" /\ now > proposals[id].end_time =>
                     proposals'[id].tally = proposals[id].tally
           A == \A id \in ProposalId : Closed(id)
<1>1. ASSUME IInv, [Next]_govVars, NEW id \in ProposalId
      PROVE  Closed(id)
  <2>1. Moves(id)
    BY <1>1, NextMoves
  <2>2. ASSUME Status(id) \in Finished PROVE proposals'[id] = proposals[id]
    BY <2>1, <2>2 DEF Moves, Settles, Polls, Runs, Undecided, Finished
  <2>3. ASSUME Status(id) # "None", now > proposals[id].end_time
        PROVE  proposals'[id].tally = proposals[id].tally
    <3>1. proposals[id] \in Proposal
      BY <1>1, <2>3, Created
    <3>2. now \in Int /\ proposals[id].end_time \in Int
      BY <1>1, <3>1, GovernanceAssumption DEF Proposal, IInv, TypeOK
    <3>3. ~(now <= proposals[id].end_time)
      BY <2>3, <3>2
    <3> QED
      BY <2>1, <2>3, <3>3 DEF Moves, Settles, Polls, Runs
  <2> QED
    BY <2>2, <2>3
<1>2. IInv /\ [Next]_govVars => [A]_govVars
  BY <1>1
<1>3. [][A]_govVars => VoteClosed
  BY PTL DEF VoteClosed
<1> HIDE DEF A
<1> QED
  BY <1>2, <1>3, SpecIInv, PTL DEF Spec
=============================================================================
