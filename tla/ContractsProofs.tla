---------------------------- MODULE ContractsProofs ----------------------------
(***************************************************************************)
(* Proofs about the contracts that stand alone, each for every value of    *)
(* its constants.  The contracts share no state; that the instances below  *)
(* share the names of constants and of the clock says nothing of them, as  *)
(* each theorem is about one of them.                                      *)
(***************************************************************************)
EXTENDS Integers, Sequences, FiniteSets, FiniteSetTheorems, SumTheorems, TLAPS

CONSTANTS
    Address, Admins, Timelocks, MaxTimelock, Grants, Amounts, Holdings, MaxRecoveries,
    MaxNow,
    Account, Asset, Panels, Configs, SpendingLimit, MaxSigners, MaxNonce,
    Bridge, Threshold, MaxWhitelist, Alert, Triggers, MaxPauses, MaxApprovals,
    Leaf, Tree, Windows, SlashAmounts, MinStakes, Stakes, MaxCommitments, MaxSlashes,
    Admin, Approvals, Rates, Risks, Limits, DefaultLimits, DefaultDelay, Coverages,
    ClaimAmounts, Slashes, RewardScale, MaxStake, MaxClaims, MaxRequests,
    Staker, Collector, Token, StakingToken, RatioChoices, Precision, Fees, Intervals,
    Vestings, Withdrawals, MaxCollected, MaxStaked, MaxSchedules,
    Text, Category, Rating, Compliance, Link, Kind, MaxLinks, MaxVersions, LastVersion

VARIABLES
    now,
    rec_admin, emergency_enabled, recovery_seq, timelock, total_recovered,
    recovery_history, authorizations, recoveries, fund, repaid, payments,
    admin, config, signers, signer_count, whitelist, nonce, tx_count, transactions,
    guardians, pause_count, pauses, requests, trigger_configs, listed_addresses,
    listed_assets,
    settings, operators, commitments, direct_slashes,
    governance, pool, positions, claims, last_claim,
    ratios, tokens, collectors, interval, last_round, halted, pools, rounds,
    total_staked, stake, compounds, debt, unclaimed, schedules, held,
    metadata, versions, asset_list, category_index, status_index, links,
    compliance_records, frozen

Recovery == INSTANCE FundRecovery
Multisig == INSTANCE Treasury
Breaker == INSTANCE CircuitBreaker
Verifier == INSTANCE ReserveVerifier
Insurance == INSTANCE InsurancePool
Distribution == INSTANCE FeeDistribution
Registry == INSTANCE AssetRegistry
-----------------------------------------------------------------------------
(***************************************************************************)
(* Divisions and sums that several contracts take.                         *)
(***************************************************************************)

\* What is added to a dividend adds at least nothing to the quotient and at most its own
\* quotient, rounded up.
LEMMA QuotientGrows ==
    ASSUME NEW n \in Nat, NEW more \in Nat, NEW d \in Nat \ {0}
    PROVE  /\ n \div d <= (n + more) \div d
           /\ (n + more) \div d <= n \div d + (more + d - 1) \div d
<1> DEFINE q == n \div d
           r == (n + more) \div d
           u == (more + d - 1) \div d
<1>1. n + more \in Nat /\ more + d - 1 \in Nat
  OBVIOUS
<1>2. q \in Nat /\ d * q <= n /\ n < d * q + d
  BY DivisionBounds
<1>3. r \in Nat /\ d * r <= n + more /\ n + more < d * r + d
  BY <1>1, DivisionBounds
<1>4. u \in Nat /\ more + d - 1 < d * u + d
  BY <1>1, DivisionBounds
<1> HIDE DEF q, r, u
<1>5. d * q \in Nat /\ d * r \in Nat /\ d * u \in Nat
  BY <1>2, <1>3, <1>4
<1>6. ASSUME NEW a \in Nat, NEW b \in Nat, a >= b PROVE d * a >= d * b
  <2>1. a - b \in Nat /\ a = b + (a - b)
    BY <1>6
  <2>2. d * a = d * b + d * (a - b) /\ d * (a - b) \in Nat
    BY <2>1
  <2> QED
    BY <2>2
<1>7. q <= r
  <2>1. SUFFICES ASSUME q >= r + 1 PROVE FALSE
    BY <1>2, <1>3
  <2>2. d * q >= d * (r + 1)
    BY <1>2, <1>3, <1>6, <2>1
  <2>3. d * (r + 1) = d * r + d
    BY <1>3
  <2> QED
    BY <1>2, <1>3, <1>5, <2>2, <2>3
<1>8. r <= q + u
  <2>1. SUFFICES ASSUME r >= q + u + 1 PROVE FALSE
    BY <1>2, <1>3, <1>4
  <2>2. d * r >= d * (q + u + 1)
    BY <1>2, <1>3, <1>4, <1>6, <2>1
  <2>3. d * (q + u + 1) = d * q + d * u + d
    BY <1>2, <1>4
  <2> QED
    BY <1>2, <1>3, <1>4, <1>5, <2>2, <2>3
<1> QED
  BY <1>7, <1>8 DEF q, r, u

\* The sum of the amounts of the records at the places of S.
AmountsAt(records, S) == SumFunctionOnSet([k \in S |-> records[k].amount], S)

\* Records that keep their amounts keep their sum.
LEMMA AmountsKept ==
    ASSUME NEW S, IsFiniteSet(S), NEW old, NEW new,
           \A k \in S : new[k].amount = old[k].amount
    PROVE  AmountsAt(new, S) = AmountsAt(old, S)
BY SumEqual DEF AmountsAt

\* One more record adds its amount.
LEMMA AmountAdded ==
    ASSUME NEW S, IsFiniteSet(S), NEW old, NEW new, NEW place, place \notin S,
           \A k \in S : new[k].amount = old[k].amount /\ old[k].amount \in Int,
           new[place].amount \in Int
    PROVE  AmountsAt(new, S \cup {place}) = AmountsAt(old, S) + new[place].amount
<1> DEFINE T == S \cup {place}
           g == [k \in T |-> new[k].amount]
           f == [k \in S |-> new[k].amount]
<1>1. SumFunctionOnSet(g, T) = g[place] + SumFunctionOnSet(g, S)
  <2>1. \A k \in S \cup {place} : g[k] \in Int
    OBVIOUS
  <2> HIDE DEF g
  <2> QED
    BY <2>1, SumAdd
<1>2. SumFunctionOnSet(g, S) = SumFunctionOnSet(f, S)
  <2>1. \A k \in S : g[k] = f[k]
    OBVIOUS
  <2> HIDE DEF g, f
  <2> QED
    BY <2>1, SumEqual
<1>3. SumFunctionOnSet(f, S) = AmountsAt(old, S) /\ AmountsAt(old, S) \in Int
  <2>1. SumFunctionOnSet(f, S) = AmountsAt(old, S)
    BY AmountsKept DEF AmountsAt
  <2>2. \A k \in S : [j \in S |-> old[j].amount][k] \in Int
    OBVIOUS
  <2> QED
    BY <2>1, <2>2, SumType DEF AmountsAt
<1>4. g[place] = new[place].amount
  OBVIOUS
<1>5. AmountsAt(new, T) = SumFunctionOnSet(g, T)
  BY DEF AmountsAt
<1> HIDE DEF g, f, T
<1> QED
  BY <1>1, <1>2, <1>3, <1>4, <1>5 DEF T

\* One record less takes its amount away.
LEMMA AmountTaken ==
    ASSUME NEW S, IsFiniteSet(S), NEW old, NEW new, NEW place \in S,
           \A k \in S : new[k].amount = old[k].amount /\ old[k].amount \in Int
    PROVE  /\ AmountsAt(old, S) = AmountsAt(new, S \ {place}) + old[place].amount
           /\ AmountsAt(new, S \ {place}) \in Int
<1> DEFINE T == S \ {place}
<1>1. IsFiniteSet(T) /\ place \notin T /\ T \cup {place} = S
  BY FS_Subset
<1>2. AmountsAt(new, S) = AmountsAt(new, T) + new[place].amount
  <2> HIDE DEF T
  <2>1. \A k \in T : new[k].amount = new[k].amount /\ new[k].amount \in Int
    BY <1>1
  <2>2. new[place].amount \in Int
    OBVIOUS
  <2>3. AmountsAt(new, T \cup {place}) = AmountsAt(new, T) + new[place].amount
    BY <1>1, <2>1, <2>2, AmountAdded
  <2> QED
    BY <1>1, <2>3
<1>3. AmountsAt(new, S) = AmountsAt(old, S)
  BY AmountsKept
<1>4. \A k \in T : [j \in T |-> new[j].amount][k] \in Int
  OBVIOUS
<1>5. AmountsAt(new, T) \in Int
  <2> HIDE DEF T
  <2> QED
    BY <1>1, <1>4, SumType DEF AmountsAt
<1>6. new[place].amount = old[place].amount /\ new[place].amount \in Int
  OBVIOUS
<1> HIDE DEF T
<1> QED
  BY <1>2, <1>3, <1>5, <1>6 DEF T
-----------------------------------------------------------------------------
(***************************************************************************)
(* Emergency fund recovery.                                                *)
(***************************************************************************)

\* What is recorded of a recovery: its approvals are finitely many, and it is not approved
\* without one.
Backed(id) ==
    recoveries[id] # Recovery!NoRecovery =>
        /\ IsFiniteSet(recoveries[id].approvals)
        /\ recoveries[id].status = "Approved" => recoveries[id].approvals # {}

\* The inductive invariant.
RecoveryInv ==
    /\ Recovery!TypeOK
    /\ Recovery!RecoveryBooks
    /\ \A id \in Recovery!RecoveryId : Backed(id)

\* It holds at first.
LEMMA InitRecovery ==
    ASSUME Recovery!RecoveryConstants, Recovery!Init
    PROVE  RecoveryInv
<1>1. /\ now \in 0 .. MaxNow /\ rec_admin \in Address
      /\ recovery_seq \in 0 .. MaxRecoveries /\ timelock \in 1 .. MaxTimelock
      /\ total_recovered \in Nat /\ fund \in Nat /\ repaid \in Nat /\ payments \in Nat
      /\ authorizations \in [Address -> SUBSET Recovery!Right]
  BY DEF Recovery!RecoveryConstants, Recovery!Init
<1>2. recovery_history \in Seq(Recovery!RecoveryId)
  BY DEF Recovery!Init
<1>3. emergency_enabled \in BOOLEAN
  BY Zenon DEF Recovery!Init
<1>4. recoveries \in [Recovery!RecoveryId -> Recovery!EmergencyRecovery \cup {Recovery!NoRecovery}]
  BY DEF Recovery!Init
<1>5. Recovery!TypeOK
  BY <1>1, <1>2, <1>3, <1>4 DEF Recovery!TypeOK
<1>6. Recovery!RecoveryBooks
  <2>1. fund + total_recovered + repaid = Holdings
    BY DEF Recovery!Init, Recovery!RecoveryConstants
  <2>2. recovery_history = [k \in 1 .. recovery_seq |-> k] /\ recovery_seq = 0
    BY DEF Recovery!Init
  <2> QED
    BY <2>1, <2>2 DEF Recovery!RecoveryBooks
<1>7. \A id \in Recovery!RecoveryId : recoveries[id] = Recovery!NoRecovery
  BY DEF Recovery!Init
<1> QED
  BY <1>5, <1>6, <1>7 DEF RecoveryInv, Backed

\* A function changed at one place.
LEMMA ChangedAt ==
    ASSUME NEW S, NEW T, NEW f \in [S -> T], NEW x \in S, NEW y \in T
    PROVE  /\ [f EXCEPT ![x] = y] \in [S -> T]
           /\ [f EXCEPT ![x] = y][x] = y
           /\ \A z \in S \ {x} : [f EXCEPT ![x] = y][z] = f[z]
OBVIOUS

\* A recovery on record, and one that is not.
LEMMA RecoveryRead ==
    ASSUME Recovery!TypeOK, NEW id \in Recovery!RecoveryId
    PROVE  /\ recoveries[id] \in Recovery!EmergencyRecovery \cup {Recovery!NoRecovery}
           /\ recoveries[id].status = "None" <=> recoveries[id] = Recovery!NoRecovery
           /\ recoveries[id].status # "None" => recoveries[id] \in Recovery!EmergencyRecovery
<1>1. recoveries[id] \in Recovery!EmergencyRecovery \cup {Recovery!NoRecovery}
  BY DEF Recovery!TypeOK
<1>2. CASE recoveries[id] = Recovery!NoRecovery
  BY <1>2 DEF Recovery!NoRecovery
<1>3. CASE recoveries[id] \in Recovery!EmergencyRecovery
  <2>1. recoveries[id].status \in {"Pending", "Approved", "Executed", "Cancelled"}
    BY <1>3 DEF Recovery!EmergencyRecovery
  <2> QED
    BY <1>3, <2>1 DEF Recovery!NoRecovery
<1> QED
  BY <1>1, <1>2, <1>3

\* A call that replaces the record of one recovery by a backed one, and leaves the totals,
\* keeps the records.
LEMMA RecordReplaced ==
    ASSUME RecoveryInv, NEW id \in Recovery!RecoveryId,
           NEW r \in Recovery!EmergencyRecovery,
           IsFiniteSet(r.approvals), r.status = "Approved" => r.approvals # {},
           recoveries' = [recoveries EXCEPT ![id] = r]
    PROVE  /\ recoveries' \in [Recovery!RecoveryId ->
                                  Recovery!EmergencyRecovery \cup {Recovery!NoRecovery}]
           /\ \A other \in Recovery!RecoveryId : Backed(other)'
           /\ recoveries'[id] # Recovery!NoRecovery
           /\ \A other \in Recovery!RecoveryId \ {id} : recoveries'[other] = recoveries[other]
<1> DEFINE T == Recovery!EmergencyRecovery \cup {Recovery!NoRecovery}
<1>1. recoveries \in [Recovery!RecoveryId -> T]
  BY DEF RecoveryInv, Recovery!TypeOK
<1>2. /\ recoveries' \in [Recovery!RecoveryId -> T]
      /\ recoveries'[id] = r
      /\ \A other \in Recovery!RecoveryId \ {id} : recoveries'[other] = recoveries[other]
  <2> HIDE DEF T
  <2> r \in T
    BY DEF T
  <2> QED
    BY <1>1, ChangedAt
<1>3. r # Recovery!NoRecovery
  <2>1. r.status \in {"Pending", "Approved", "Executed", "Cancelled"}
    BY DEF Recovery!EmergencyRecovery
  <2> QED
    BY <2>1 DEF Recovery!NoRecovery
<1>4. ASSUME NEW other \in Recovery!RecoveryId PROVE Backed(other)'
  <2>1. CASE other = id
    BY <1>2, <2>1 DEF Backed
  <2>2. CASE other # id
    <3>1. Backed(other)
      BY DEF RecoveryInv
    <3>2. recoveries'[other] = recoveries[other]
      BY <1>2, <2>2
    <3> QED
      BY <3>1, <3>2 DEF Backed, Recovery!NoRecovery
  <2> QED
    BY <2>1, <2>2
<1> QED
  BY <1>2, <1>3, <1>4

\* Calls that leave the records and the clock alone keep what is recorded.
LEMMA RecordsKept ==
    ASSUME RecoveryInv, UNCHANGED recoveries
    PROVE  /\ recoveries' \in [Recovery!RecoveryId ->
                                  Recovery!EmergencyRecovery \cup {Recovery!NoRecovery}]
           /\ \A id \in Recovery!RecoveryId : Backed(id)'
BY DEF RecoveryInv, Recovery!TypeOK, Backed, Recovery!NoRecovery

\* The administration of the contract keeps the invariant.
LEMMA AdministerRecovery ==
    ASSUME Recovery!RecoveryConstants, RecoveryInv, NEW caller \in Address,
           \/ \E secs \in Timelocks : Recovery!InitializeRecovery(caller, secs)
           \/ \E enabled \in BOOLEAN : Recovery!SetEmergency(caller, enabled)
           \/ \E user \in Address, rights \in Grants :
                 Recovery!AddRecoveryAuthorizer(caller, user, rights)
    PROVE  RecoveryInv'
<1>1. UNCHANGED recoveries
  BY DEF Recovery!InitializeRecovery, Recovery!SetEmergency, Recovery!AddRecoveryAuthorizer
<1>2. /\ Recovery!TypeOK /\ Recovery!RecoveryBooks
      /\ total_recovered \in Nat /\ fund \in Nat /\ repaid \in Nat /\ Holdings \in Nat
  BY DEF RecoveryInv, Recovery!TypeOK, Recovery!RecoveryConstants
<1>3. /\ recoveries' \in [Recovery!RecoveryId ->
                             Recovery!EmergencyRecovery \cup {Recovery!NoRecovery}]
      /\ \A id \in Recovery!RecoveryId : Backed(id)'
  BY <1>1, RecordsKept
<1>4. CASE \E secs \in Timelocks : Recovery!InitializeRecovery(caller, secs)
  <2> PICK secs \in Timelocks : Recovery!InitializeRecovery(caller, secs)
    BY <1>4
  <2>1. /\ rec_admin' = caller /\ emergency_enabled' = FALSE /\ recovery_seq' = 0
        /\ secs \in 1 .. MaxTimelock /\ timelock' = secs
        /\ total_recovered' = 0 /\ recovery_history' = <<>>
        /\ repaid' = repaid + total_recovered
        /\ UNCHANGED <<now, authorizations, recoveries, fund, payments>>
    BY DEF Recovery!InitializeRecovery
  <2>2. Recovery!TypeOK'
    <3>1. emergency_enabled' \in BOOLEAN
      BY <2>1, Zenon
    <3>2. recovery_history' \in Seq(Recovery!RecoveryId)
      BY <2>1
    <3>3. /\ repaid' \in Nat /\ total_recovered' \in Nat
          /\ recovery_seq' \in 0 .. MaxRecoveries
      BY <1>2, <2>1 DEF Recovery!RecoveryConstants
    <3> QED
      BY <1>2, <1>3, <2>1, <3>1, <3>2, <3>3 DEF Recovery!TypeOK, Recovery!RecoveryId,
         Recovery!EmergencyRecovery, Recovery!NoRecovery, Recovery!Right
  <2>3. Recovery!RecoveryBooks'
    <3>1. fund' + total_recovered' + repaid' = Holdings
      <4>1. fund + total_recovered + repaid = Holdings
        BY <1>2 DEF Recovery!RecoveryBooks
      <4> QED
        BY <1>2, <2>1, <4>1
    <3>2. recovery_history' = [k \in 1 .. recovery_seq' |-> k]
      BY <2>1
    <3> QED
      BY <2>1, <3>1, <3>2 DEF Recovery!RecoveryBooks
  <2> QED
    BY <1>3, <2>2, <2>3 DEF RecoveryInv, Recovery!RecoveryId
<1>5. CASE \E enabled \in BOOLEAN : Recovery!SetEmergency(caller, enabled)
  <2>1. /\ emergency_enabled' \in BOOLEAN
        /\ UNCHANGED <<now, rec_admin, recovery_seq, timelock, total_recovered,
                       recovery_history, authorizations, recoveries, fund, repaid, payments>>
    BY <1>5, Zenon DEF Recovery!SetEmergency
  <2>2. Recovery!TypeOK' /\ Recovery!RecoveryBooks'
    BY <1>2, <2>1 DEF Recovery!TypeOK, Recovery!RecoveryBooks, Recovery!RecoveryId,
       Recovery!EmergencyRecovery, Recovery!NoRecovery, Recovery!Right
  <2> QED
    BY <1>3, <2>2 DEF RecoveryInv, Recovery!RecoveryId
<1>6. CASE \E user \in Address, rights \in Grants :
              Recovery!AddRecoveryAuthorizer(caller, user, rights)
  <2> PICK user \in Address, rights \in Grants :
              Recovery!AddRecoveryAuthorizer(caller, user, rights)
    BY <1>6
  <2>1. /\ authorizations' = [authorizations EXCEPT ![user] = rights]
        /\ UNCHANGED <<now, rec_admin, emergency_enabled, recovery_seq, timelock,
                       total_recovered, recovery_history, repaid, payments, recoveries, fund>>
    BY DEF Recovery!AddRecoveryAuthorizer, Recovery!instanceVars
  <2>2. authorizations' \in [Address -> SUBSET Recovery!Right]
    BY <1>2, <2>1 DEF Recovery!TypeOK, Recovery!RecoveryConstants
  <2>3. Recovery!TypeOK' /\ Recovery!RecoveryBooks'
    BY <1>2, <2>1, <2>2 DEF Recovery!TypeOK, Recovery!RecoveryBooks, Recovery!RecoveryId,
       Recovery!EmergencyRecovery, Recovery!NoRecovery, Recovery!Right
  <2> QED
    BY <1>3, <2>3 DEF RecoveryInv, Recovery!RecoveryId
<1> QED
  BY <1>4, <1>5, <1>6

\* The invariant of what a call on recoveries leaves, from its parts.
LEMMA RecoveryRejoined ==
    ASSUME Recovery!TypeOK, UNCHANGED <<rec_admin, emergency_enabled, timelock, authorizations,
                                        now, repaid>>,
           recovery_seq' \in 0 .. MaxRecoveries,
           total_recovered' \in Nat, fund' \in Nat, payments' \in Nat,
           recovery_history' \in Seq(Recovery!RecoveryId),
           recoveries' \in [Recovery!RecoveryId ->
                               Recovery!EmergencyRecovery \cup {Recovery!NoRecovery}],
           Recovery!RecoveryBooks', \A id \in Recovery!RecoveryId : Backed(id)'
    PROVE  RecoveryInv'
<1>1. emergency_enabled' \in BOOLEAN
  BY Zenon DEF Recovery!TypeOK
<1>2. /\ now' \in 0 .. MaxNow /\ rec_admin' \in Address /\ timelock' \in 1 .. MaxTimelock
      /\ repaid' \in Nat /\ authorizations' \in [Address -> SUBSET Recovery!Right]
  BY DEF Recovery!TypeOK
<1>3. Recovery!TypeOK'
  BY <1>1, <1>2 DEF Recovery!TypeOK, Recovery!RecoveryId, Recovery!EmergencyRecovery,
     Recovery!NoRecovery, Recovery!Right
<1> QED
  BY <1>3 DEF RecoveryInv, Recovery!RecoveryId

\* A proposal keeps the invariant.
LEMMA InitiateKeeps ==
    ASSUME Recovery!RecoveryConstants, RecoveryInv, NEW caller \in Address,
           NEW destination \in Address, NEW amount \in Amounts,
           Recovery!InitiateRecovery(caller, destination, amount)
    PROVE  RecoveryInv'
<1> DEFINE next == recovery_seq + 1
           fresh == [status |-> "Pending", initiator |-> caller, destination |-> destination,
                     amount |-> amount, timelock_until |-> now + timelock, approvals |-> {},
                     executed_at |-> 0]
<1>1. /\ Recovery!TypeOK /\ Recovery!RecoveryBooks
      /\ recovery_seq \in 0 .. MaxRecoveries /\ MaxRecoveries \in Nat
      /\ now \in Nat /\ timelock \in Nat /\ amount \in Nat
      /\ recovery_history \in Seq(Recovery!RecoveryId)
  BY DEF RecoveryInv, Recovery!TypeOK, Recovery!RecoveryConstants
<1>2. /\ recovery_seq < MaxRecoveries
      /\ recovery_seq' = next
      /\ recoveries' = [recoveries EXCEPT ![next] = fresh]
      /\ recovery_history' = Append(recovery_history, next)
      /\ UNCHANGED <<now, rec_admin, emergency_enabled, timelock, total_recovered,
                     authorizations, fund, repaid, payments>>
  BY DEF Recovery!InitiateRecovery
<1>3. next \in Recovery!RecoveryId /\ next \in 0 .. MaxRecoveries /\ next \in Nat
  BY <1>1, <1>2 DEF Recovery!RecoveryId
<1>4. fresh \in Recovery!EmergencyRecovery
  <2> now + timelock \in Nat
    BY <1>1
  <2> QED
    BY <1>1 DEF Recovery!EmergencyRecovery
<1>5. /\ recoveries' \in [Recovery!RecoveryId ->
                             Recovery!EmergencyRecovery \cup {Recovery!NoRecovery}]
      /\ \A other \in Recovery!RecoveryId : Backed(other)'
      /\ recoveries'[next] # Recovery!NoRecovery
      /\ \A other \in Recovery!RecoveryId \ {next} : recoveries'[other] = recoveries[other]
  <2>1. IsFiniteSet(fresh.approvals) /\ fresh.status # "Approved"
    BY FS_EmptySet
  <2> HIDE DEF fresh, next
  <2> QED
    BY <1>2, <1>3, <1>4, <2>1, RecordReplaced
<1>6. Recovery!RecoveryBooks'
  <2>1. /\ fund + total_recovered + repaid = Holdings
        /\ recovery_history = [k \in 1 .. recovery_seq |-> k]
        /\ \A id \in 1 .. recovery_seq : recoveries[id] # Recovery!NoRecovery
    BY <1>1 DEF Recovery!RecoveryBooks
  <2>2. Len(recovery_history) = recovery_seq
    BY <1>1, <2>1
  <2>3. recovery_history' = [k \in 1 .. recovery_seq' |-> k]
    BY <1>1, <1>2, <1>3, <2>1, <2>2
  <2>4. ASSUME NEW id \in 1 .. recovery_seq' PROVE recoveries'[id] # Recovery!NoRecovery'
    <3>1. id \in Recovery!RecoveryId
      BY <1>1, <1>2, <1>3 DEF Recovery!RecoveryId
    <3>2. CASE id = next
      BY <1>5, <3>2 DEF Recovery!NoRecovery
    <3>3. CASE id # next
      <4>1. id \in 1 .. recovery_seq
        BY <1>1, <1>2, <3>3
      <4> HIDE DEF next
      <4> QED
        BY <1>5, <2>1, <3>1, <3>3, <4>1 DEF Recovery!NoRecovery
    <3> QED
      BY <3>2, <3>3
  <2>5. fund' + total_recovered' + repaid' = Holdings
    BY <1>2, <2>1
  <2> QED
    BY <2>3, <2>4, <2>5 DEF Recovery!RecoveryBooks
<1>7. recovery_history' \in Seq(Recovery!RecoveryId)
  BY <1>1, <1>2, <1>3
<1>8. total_recovered' \in Nat /\ fund' \in Nat /\ payments' \in Nat
  BY <1>1, <1>2 DEF Recovery!TypeOK
<1> QED
  BY <1>1, <1>2, <1>3, <1>5, <1>6, <1>7, <1>8, RecoveryRejoined

\* The records a call on a recovery replaces keep the books.
LEMMA BooksRejoined ==
    ASSUME Recovery!RecoveryConstants, RecoveryInv, NEW id \in Recovery!RecoveryId,
           recoveries'[id] # Recovery!NoRecovery,
           \A other \in Recovery!RecoveryId \ {id} : recoveries'[other] = recoveries[other],
           UNCHANGED <<recovery_seq, recovery_history>>,
           fund' + total_recovered' + repaid' = fund + total_recovered + repaid
    PROVE  Recovery!RecoveryBooks'
<1>1. /\ fund + total_recovered + repaid = Holdings
      /\ recovery_history = [k \in 1 .. recovery_seq |-> k]
      /\ \A k \in 1 .. recovery_seq : recoveries[k] # Recovery!NoRecovery
      /\ recovery_seq \in 0 .. MaxRecoveries /\ MaxRecoveries \in Nat
  BY DEF RecoveryInv, Recovery!RecoveryBooks, Recovery!TypeOK, Recovery!RecoveryConstants
<1>2. ASSUME NEW k \in 1 .. recovery_seq' PROVE recoveries'[k] # Recovery!NoRecovery'
  <2>1. k \in 1 .. recovery_seq
    OBVIOUS
  <2>2. k \in Recovery!RecoveryId
    BY <1>1, <2>1 DEF Recovery!RecoveryId
  <2> QED
    BY <1>1, <2>1, <2>2 DEF Recovery!NoRecovery
<1> QED
  BY <1>1, <1>2 DEF Recovery!RecoveryBooks

\* An approval keeps the invariant.
LEMMA ApproveKeeps ==
    ASSUME Recovery!RecoveryConstants, RecoveryInv, NEW caller \in Address,
           NEW id \in Recovery!RecoveryId, Recovery!ApproveRecovery(caller, id)
    PROVE  RecoveryInv'
<1> DEFINE signed == [recoveries[id] EXCEPT !.approvals = @ \cup {caller},
                                            !.status = "Approved"]
<1>1. /\ Recovery!TypeOK /\ recoveries[id].status = "Pending"
      /\ recoveries[id] \in Recovery!EmergencyRecovery
      /\ IsFiniteSet(recoveries[id].approvals)
  <2>1. Recovery!TypeOK /\ recoveries[id].status = "Pending"
    BY DEF RecoveryInv, Recovery!ApproveRecovery
  <2>2. recoveries[id] \in Recovery!EmergencyRecovery /\ recoveries[id] # Recovery!NoRecovery
    BY <2>1, RecoveryRead
  <2> QED
    BY <2>1, <2>2 DEF RecoveryInv, Backed
<1>2. /\ recoveries' = [recoveries EXCEPT ![id] = signed]
      /\ UNCHANGED <<now, rec_admin, emergency_enabled, recovery_seq, timelock,
                     total_recovered, recovery_history, repaid, payments, authorizations, fund>>
  BY <1>1 DEF Recovery!ApproveRecovery, Recovery!instanceVars, Recovery!TypeOK,
     Recovery!EmergencyRecovery
<1>3. /\ signed \in Recovery!EmergencyRecovery /\ signed.approvals # {}
      /\ signed.approvals = recoveries[id].approvals \cup {caller}
  BY <1>1 DEF Recovery!EmergencyRecovery
<1>4. IsFiniteSet(signed.approvals)
  BY <1>1, <1>3, FS_AddElement
<1>5. /\ recoveries' \in [Recovery!RecoveryId ->
                             Recovery!EmergencyRecovery \cup {Recovery!NoRecovery}]
      /\ \A other \in Recovery!RecoveryId : Backed(other)'
      /\ recoveries'[id] # Recovery!NoRecovery
      /\ \A other \in Recovery!RecoveryId \ {id} : recoveries'[other] = recoveries[other]
  <2> HIDE DEF signed
  <2> QED
    BY <1>2, <1>3, <1>4, RecordReplaced
<1>6. Recovery!RecoveryBooks'
  BY <1>2, <1>5, BooksRejoined
<1> QED
  BY <1>1, <1>2, <1>5, <1>6, RecoveryRejoined DEF Recovery!TypeOK

\* A payment keeps the invariant: what leaves the fund is added to the total.
LEMMA ExecuteKeeps ==
    ASSUME Recovery!RecoveryConstants, RecoveryInv, NEW caller \in Address,
           NEW id \in Recovery!RecoveryId, Recovery!ExecuteRecovery(caller, id)
    PROVE  RecoveryInv'
<1> DEFINE paid == [recoveries[id] EXCEPT !.status = "Executed", !.executed_at = now]
<1>1. /\ Recovery!TypeOK /\ recoveries[id].status = "Approved"
      /\ recoveries[id] \in Recovery!EmergencyRecovery
      /\ IsFiniteSet(recoveries[id].approvals)
      /\ now \in Nat /\ recoveries[id].amount \in Nat /\ fund \in Nat
      /\ total_recovered \in Nat /\ payments \in Nat /\ repaid \in Nat
  <2>1. Recovery!TypeOK /\ recoveries[id].status = "Approved"
    BY DEF RecoveryInv, Recovery!ExecuteRecovery
  <2>2. recoveries[id] \in Recovery!EmergencyRecovery /\ recoveries[id] # Recovery!NoRecovery
    BY <2>1, RecoveryRead
  <2>3. now \in Nat /\ recoveries[id].amount \in Nat /\ fund \in Nat
        /\ total_recovered \in Nat /\ payments \in Nat /\ repaid \in Nat
    BY <2>1, <2>2 DEF Recovery!TypeOK, Recovery!EmergencyRecovery
  <2> QED
    BY <2>1, <2>2, <2>3 DEF RecoveryInv, Backed
<1>2. /\ recoveries[id].amount <= fund
      /\ recoveries' = [recoveries EXCEPT ![id] = paid]
      /\ fund' = fund - recoveries[id].amount
      /\ total_recovered' = total_recovered + recoveries[id].amount
      /\ payments' = payments + 1
      /\ UNCHANGED <<now, rec_admin, emergency_enabled, recovery_seq, timelock,
                     recovery_history, authorizations, repaid>>
  BY <1>1 DEF Recovery!ExecuteRecovery, Recovery!TypeOK, Recovery!EmergencyRecovery
<1>3. /\ paid \in Recovery!EmergencyRecovery /\ paid.status # "Approved"
      /\ paid.approvals = recoveries[id].approvals
  BY <1>1 DEF Recovery!EmergencyRecovery
<1>4. /\ recoveries' \in [Recovery!RecoveryId ->
                             Recovery!EmergencyRecovery \cup {Recovery!NoRecovery}]
      /\ \A other \in Recovery!RecoveryId : Backed(other)'
      /\ recoveries'[id] # Recovery!NoRecovery
      /\ \A other \in Recovery!RecoveryId \ {id} : recoveries'[other] = recoveries[other]
  <2> HIDE DEF paid
  <2> QED
    BY <1>1, <1>2, <1>3, RecordReplaced
<1>5. fund' \in Nat /\ total_recovered' \in Nat /\ payments' \in Nat
      /\ fund' + total_recovered' + repaid' = fund + total_recovered + repaid
  BY <1>1, <1>2
<1>6. Recovery!RecoveryBooks'
  BY <1>2, <1>4, <1>5, BooksRejoined
<1>7. recovery_seq' \in 0 .. MaxRecoveries /\ recovery_history' \in Seq(Recovery!RecoveryId)
  BY <1>1, <1>2 DEF Recovery!TypeOK
<1> QED
  BY <1>1, <1>2, <1>4, <1>5, <1>6, <1>7, RecoveryRejoined

\* A cancellation keeps the invariant.
LEMMA CancelKeeps ==
    ASSUME Recovery!RecoveryConstants, RecoveryInv, NEW caller \in Address,
           NEW id \in Recovery!RecoveryId, Recovery!CancelRecovery(caller, id)
    PROVE  RecoveryInv'
<1> DEFINE closed == [recoveries[id] EXCEPT !.status = "Cancelled"]
<1>1. /\ Recovery!TypeOK
      /\ recoveries[id] \in Recovery!EmergencyRecovery
      /\ IsFiniteSet(recoveries[id].approvals)
  <2>1. Recovery!TypeOK /\ recoveries[id].status \in {"Pending", "Approved"}
    BY DEF RecoveryInv, Recovery!CancelRecovery
  <2>2. recoveries[id] \in Recovery!EmergencyRecovery /\ recoveries[id] # Recovery!NoRecovery
    BY <2>1, RecoveryRead
  <2> QED
    BY <2>1, <2>2 DEF RecoveryInv, Backed
<1>2. /\ recoveries' = [recoveries EXCEPT ![id] = closed]
      /\ UNCHANGED <<now, rec_admin, emergency_enabled, recovery_seq, timelock,
                     total_recovered, recovery_history, repaid, payments, authorizations, fund>>
  BY <1>1 DEF Recovery!CancelRecovery, Recovery!instanceVars, Recovery!TypeOK,
     Recovery!EmergencyRecovery
<1>3. /\ closed \in Recovery!EmergencyRecovery /\ closed.status # "Approved"
      /\ closed.approvals = recoveries[id].approvals
  BY <1>1 DEF Recovery!EmergencyRecovery
<1>4. /\ recoveries' \in [Recovery!RecoveryId ->
                             Recovery!EmergencyRecovery \cup {Recovery!NoRecovery}]
      /\ \A other \in Recovery!RecoveryId : Backed(other)'
      /\ recoveries'[id] # Recovery!NoRecovery
      /\ \A other \in Recovery!RecoveryId \ {id} : recoveries'[other] = recoveries[other]
  <2> HIDE DEF closed
  <2> QED
    BY <1>1, <1>2, <1>3, RecordReplaced
<1>5. Recovery!RecoveryBooks'
  BY <1>2, <1>4, BooksRejoined
<1> QED
  BY <1>1, <1>2, <1>4, <1>5, RecoveryRejoined DEF Recovery!TypeOK

\* Every step keeps the invariant.
LEMMA NextRecovery ==
    ASSUME Recovery!RecoveryConstants, RecoveryInv, [Recovery!Next]_(Recovery!vars)
    PROVE  RecoveryInv'
<1>1. CASE Recovery!Tick
  <2>1. now' \in 0 .. MaxNow /\ UNCHANGED Recovery!recoveryVars
    BY <1>1 DEF Recovery!Tick, RecoveryInv, Recovery!TypeOK, Recovery!RecoveryConstants
  <2> QED
    BY <2>1 DEF RecoveryInv, Recovery!recoveryVars, Recovery!TypeOK, Recovery!RecoveryBooks,
       Recovery!RecoveryId, Recovery!EmergencyRecovery, Recovery!NoRecovery, Recovery!Right, Backed
<1>2. CASE UNCHANGED Recovery!vars
  BY <1>2 DEF RecoveryInv, Recovery!vars, Recovery!recoveryVars, Recovery!TypeOK,
     Recovery!RecoveryBooks, Recovery!RecoveryId, Recovery!EmergencyRecovery,
     Recovery!NoRecovery, Recovery!Right, Backed
<1>3. CASE \E caller \in Address :
              \/ \E secs \in Timelocks : Recovery!InitializeRecovery(caller, secs)
              \/ \E enabled \in BOOLEAN : Recovery!SetEmergency(caller, enabled)
              \/ \E user \in Address, rights \in Grants :
                    Recovery!AddRecoveryAuthorizer(caller, user, rights)
  BY <1>3, AdministerRecovery
<1>4. CASE \E caller \in Address, destination \in Address, amount \in Amounts :
              Recovery!InitiateRecovery(caller, destination, amount)
  BY <1>4, InitiateKeeps
<1>5. CASE \E caller \in Address, id \in Recovery!RecoveryId :
              \/ Recovery!ApproveRecovery(caller, id)
              \/ Recovery!ExecuteRecovery(caller, id)
              \/ Recovery!CancelRecovery(caller, id)
  BY <1>5, ApproveKeeps, ExecuteKeeps, CancelKeeps
<1> QED
  BY <1>1, <1>2, <1>3, <1>4, <1>5 DEF Recovery!Next

\* The invariant holds of every behaviour.
LEMMA RecoveryInvariant ==
    ASSUME Recovery!RecoveryConstants
    PROVE  Recovery!Spec => []RecoveryInv
<1>1. Recovery!Init => RecoveryInv
  BY InitRecovery
<1>2. RecoveryInv /\ [Recovery!Next]_(Recovery!vars) => RecoveryInv'
  BY NextRecovery
<1> QED
  BY <1>1, <1>2, PTL DEF Recovery!Spec

\* Every variable of the recovery contract holds values of its type.
THEOREM RecoveryTyped ==
    ASSUME Recovery!RecoveryConstants
    PROVE  Recovery!Spec => []Recovery!TypeOK
<1>1. RecoveryInv => Recovery!TypeOK
  BY DEF RecoveryInv
<1> QED
  BY <1>1, RecoveryInvariant, PTL

\* Tokens leave the recovery contract only as its totals say, however often it is
\* initialised again, and its history since the last time names records it has.
THEOREM RecoveriesAccounted ==
    ASSUME Recovery!RecoveryConstants
    PROVE  Recovery!Spec => []Recovery!RecoveryBooks
<1>1. RecoveryInv => Recovery!RecoveryBooks
  BY DEF RecoveryInv
<1> QED
  BY <1>1, RecoveryInvariant, PTL

\* The recoveries implement the promise of ApprovedAction: a place for each id, and what is
\* known of it read off its record.
inProgress == {id \in Recovery!RecoveryId : Recovery!InProgress(id)}
approvedBy == [id \in Recovery!RecoveryId |->
                  IF Recovery!InProgress(id) THEN recoveries[id].approvals ELSE {}]
approvalsNeeded == [id \in Recovery!RecoveryId |-> IF Recovery!InProgress(id) THEN 1 ELSE 0]
payableFrom == [id \in Recovery!RecoveryId |->
                   IF Recovery!InProgress(id) THEN recoveries[id].timelock_until ELSE 0]

\* No place is taken at first.
LEMMA ApprovedStart ==
    ASSUME Recovery!Init
    PROVE  Recovery!Approved!Init
<1>1. \A id \in Recovery!RecoveryId : recoveries[id] = Recovery!NoRecovery
  BY DEF Recovery!Init
<1>2. \A id \in Recovery!RecoveryId : ~Recovery!InProgress(id)
  BY <1>1 DEF Recovery!InProgress, Recovery!NoRecovery
<1>3. now = 0 /\ payments = 0
  BY DEF Recovery!Init
<1> QED
  BY <1>2, <1>3 DEF Recovery!Approved!Init

\* A call that leaves the records, the payments and the clock alone is a stutter.
LEMMA ApprovedStutter ==
    ASSUME UNCHANGED <<now, recoveries, payments>>
    PROVE  UNCHANGED Recovery!Approved!actionVars
BY DEF Recovery!Approved!actionVars, Recovery!InProgress, Recovery!RecoveryId

\* A call that replaces the record of one recovery changes the place of that one.
LEMMA PlaceReplaced ==
    ASSUME Recovery!TypeOK, NEW id \in Recovery!RecoveryId, NEW r,
           recoveries'[id] = r,
           \A other \in Recovery!RecoveryId \ {id} : recoveries'[other] = recoveries[other]
    PROVE  IF r.status \in {"Pending", "Approved"}
           THEN /\ inProgress' = inProgress \cup {id}
                /\ approvedBy' = [approvedBy EXCEPT ![id] = r.approvals]
                /\ approvalsNeeded' = [approvalsNeeded EXCEPT ![id] = 1]
                /\ payableFrom' = [payableFrom EXCEPT ![id] = r.timelock_until]
           ELSE /\ inProgress' = inProgress \ {id}
                /\ approvedBy' = [approvedBy EXCEPT ![id] = {}]
                /\ approvalsNeeded' = [approvalsNeeded EXCEPT ![id] = 0]
                /\ payableFrom' = [payableFrom EXCEPT ![id] = 0]
<1>1. \A other \in Recovery!RecoveryId \ {id} :
          Recovery!InProgress(other)' <=> Recovery!InProgress(other)
  BY DEF Recovery!InProgress
<1>2. Recovery!InProgress(id)' <=> r.status \in {"Pending", "Approved"}
  BY DEF Recovery!InProgress
<1>3. CASE r.status \in {"Pending", "Approved"}
  <2>1. inProgress' = inProgress \cup {id}
    BY <1>1, <1>2, <1>3 DEF inProgress, Recovery!RecoveryId
  <2>2. /\ approvedBy' = [approvedBy EXCEPT ![id] = r.approvals]
        /\ approvalsNeeded' = [approvalsNeeded EXCEPT ![id] = 1]
        /\ payableFrom' = [payableFrom EXCEPT ![id] = r.timelock_until]
    BY <1>1, <1>2, <1>3 DEF approvedBy, approvalsNeeded, payableFrom, Recovery!RecoveryId
  <2> QED
    BY <1>3, <2>1, <2>2
<1>4. CASE r.status \notin {"Pending", "Approved"}
  <2>1. inProgress' = inProgress \ {id}
    BY <1>1, <1>2, <1>4 DEF inProgress, Recovery!RecoveryId
  <2>2. /\ approvedBy' = [approvedBy EXCEPT ![id] = {}]
        /\ approvalsNeeded' = [approvalsNeeded EXCEPT ![id] = 0]
        /\ payableFrom' = [payableFrom EXCEPT ![id] = 0]
    BY <1>1, <1>2, <1>4 DEF approvedBy, approvalsNeeded, payableFrom, Recovery!RecoveryId
  <2> QED
    BY <1>4, <2>1, <2>2
<1> QED
  BY <1>3, <1>4

\* The actions of the promise, with its places written out.
LEMMA ApprovedActions ==
    ASSUME NEW id \in Recovery!RecoveryId
    PROVE  /\ ( /\ approvalsNeeded'[id] > 0 /\ payableFrom'[id] >= now
                /\ inProgress' = inProgress \cup {id}
                /\ approvedBy' = [approvedBy EXCEPT ![id] = {}]
                /\ approvalsNeeded' = [approvalsNeeded EXCEPT ![id] = approvalsNeeded'[id]]
                /\ payableFrom' = [payableFrom EXCEPT ![id] = payableFrom'[id]]
                /\ UNCHANGED <<now, payments>> ) => Recovery!Approved!Propose(id)
           /\ ( /\ id \in inProgress
                /\ \E v \in Address \ approvedBy[id] :
                      approvedBy' = [approvedBy EXCEPT ![id] = @ \cup {v}]
                /\ UNCHANGED <<now, inProgress, approvalsNeeded, payableFrom, payments>> )
              => Recovery!Approved!Vote(id)
           /\ ( /\ id \in inProgress
                /\ inProgress' = inProgress \ {id}
                /\ approvedBy' = [approvedBy EXCEPT ![id] = {}]
                /\ approvalsNeeded' = [approvalsNeeded EXCEPT ![id] = 0]
                /\ payableFrom' = [payableFrom EXCEPT ![id] = 0]
                /\ UNCHANGED now ) => Recovery!Approved!Close(id)
<1> USE DEF inProgress, approvedBy, approvalsNeeded, payableFrom
<1>1. {} \in {{}} \cup {{v} : v \in Address}
  OBVIOUS
<1>2. ASSUME /\ approvalsNeeded'[id] > 0 /\ payableFrom'[id] >= now
             /\ inProgress' = inProgress \cup {id}
             /\ approvedBy' = [approvedBy EXCEPT ![id] = {}]
             /\ approvalsNeeded' = [approvalsNeeded EXCEPT ![id] = approvalsNeeded'[id]]
             /\ payableFrom' = [payableFrom EXCEPT ![id] = payableFrom'[id]]
             /\ UNCHANGED <<now, payments>>
      PROVE  Recovery!Approved!Propose(id)
  BY <1>1, <1>2, Zenon DEF Recovery!Approved!Propose
<1>3. ASSUME /\ id \in inProgress
             /\ \E v \in Address \ approvedBy[id] :
                   approvedBy' = [approvedBy EXCEPT ![id] = @ \cup {v}]
             /\ UNCHANGED <<now, inProgress, approvalsNeeded, payableFrom, payments>>
      PROVE  Recovery!Approved!Vote(id)
  BY <1>3, Zenon DEF Recovery!Approved!Vote
<1>4. ASSUME /\ id \in inProgress
             /\ inProgress' = inProgress \ {id}
             /\ approvedBy' = [approvedBy EXCEPT ![id] = {}]
             /\ approvalsNeeded' = [approvalsNeeded EXCEPT ![id] = 0]
             /\ payableFrom' = [payableFrom EXCEPT ![id] = 0]
             /\ UNCHANGED now
      PROVE  Recovery!Approved!Close(id)
  BY <1>4, Zenon DEF Recovery!Approved!Close
<1> QED
  BY <1>2, <1>3, <1>4, Zenon

\* A proposal takes the place of its id, with no approval and a timelock to wait for.
LEMMA InitiateApproved ==
    ASSUME Recovery!RecoveryConstants, RecoveryInv, NEW caller \in Address,
           NEW destination \in Address, NEW amount \in Amounts,
           Recovery!InitiateRecovery(caller, destination, amount)
    PROVE  Recovery!Approved!Next
<1> DEFINE fresh == [status |-> "Pending", initiator |-> caller, destination |-> destination,
                     amount |-> amount, timelock_until |-> now + timelock, approvals |-> {},
                     executed_at |-> 0]
<1>0. PICK id \in Recovery!RecoveryId : id = recovery_seq + 1
  <2>1. recovery_seq + 1 \in Recovery!RecoveryId
    BY DEF RecoveryInv, Recovery!TypeOK, Recovery!RecoveryConstants,
       Recovery!InitiateRecovery, Recovery!RecoveryId
  <2> QED
    BY <2>1
<1>1. /\ Recovery!TypeOK /\ recovery_seq \in 0 .. MaxRecoveries /\ MaxRecoveries \in Nat
      /\ recovery_seq < MaxRecoveries /\ now \in Nat /\ timelock \in Nat
      /\ recoveries \in [Recovery!RecoveryId ->
                            Recovery!EmergencyRecovery \cup {Recovery!NoRecovery}]
      /\ recoveries' = [recoveries EXCEPT ![id] = fresh]
      /\ UNCHANGED <<now, payments>>
  BY <1>0 DEF RecoveryInv, Recovery!TypeOK, Recovery!RecoveryConstants, Recovery!InitiateRecovery
<1>2. id \in Recovery!RecoveryId
  OBVIOUS
<1>3. /\ recoveries'[id] = fresh
      /\ \A other \in Recovery!RecoveryId \ {id} : recoveries'[other] = recoveries[other]
  <2> HIDE DEF fresh
  <2> QED
    BY <1>1, <1>2
<1>4. /\ inProgress' = inProgress \cup {id}
      /\ approvedBy' = [approvedBy EXCEPT ![id] = {}]
      /\ approvalsNeeded' = [approvalsNeeded EXCEPT ![id] = 1]
      /\ payableFrom' = [payableFrom EXCEPT ![id] = now + timelock]
  <2>1. /\ fresh.status \in {"Pending", "Approved"} /\ fresh.approvals = {}
        /\ fresh.timelock_until = now + timelock
    OBVIOUS
  <2> HIDE DEF fresh
  <2> QED
    BY <1>1, <1>2, <1>3, <2>1, PlaceReplaced
<1>5. approvalsNeeded'[id] = 1 /\ payableFrom'[id] = now + timelock
  <2>1. /\ DOMAIN approvalsNeeded = Recovery!RecoveryId
        /\ DOMAIN payableFrom = Recovery!RecoveryId
    BY DEF approvalsNeeded, payableFrom
  <2> QED
    BY <1>2, <1>4, <2>1
<1>6. now + timelock >= now
  BY <1>1
<1>7. Recovery!Approved!Propose(id)
  <2>1. approvalsNeeded'[id] > 0 /\ payableFrom'[id] >= now
    BY <1>5, <1>6
  <2>2. /\ approvalsNeeded' = [approvalsNeeded EXCEPT ![id] = approvalsNeeded'[id]]
        /\ payableFrom' = [payableFrom EXCEPT ![id] = payableFrom'[id]]
    BY <1>4, <1>5, Zenon
  <2> QED
    BY <1>1, <1>4, <2>1, <2>2, ApprovedActions, Zenon
<1> QED
  BY <1>2, <1>7 DEF Recovery!Approved!Next

\* An approval is a vote of another account.
LEMMA ApproveApproved ==
    ASSUME Recovery!RecoveryConstants, RecoveryInv, NEW caller \in Address,
           NEW id \in Recovery!RecoveryId, Recovery!ApproveRecovery(caller, id)
    PROVE  Recovery!Approved!Next
<1> DEFINE signed == [recoveries[id] EXCEPT !.approvals = @ \cup {caller},
                                            !.status = "Approved"]
<1>1. /\ Recovery!TypeOK /\ recoveries[id].status = "Pending"
      /\ caller \notin recoveries[id].approvals
  BY DEF RecoveryInv, Recovery!ApproveRecovery
<1>2. /\ recoveries[id] \in Recovery!EmergencyRecovery
      /\ recoveries \in [Recovery!RecoveryId ->
                            Recovery!EmergencyRecovery \cup {Recovery!NoRecovery}]
  BY <1>1, RecoveryRead DEF Recovery!TypeOK
<1>3. /\ recoveries' = [recoveries EXCEPT ![id] = signed]
      /\ UNCHANGED <<now, payments>>
  BY <1>2 DEF Recovery!ApproveRecovery, Recovery!instanceVars, Recovery!EmergencyRecovery
<1>4. /\ signed.status \in {"Pending", "Approved"}
      /\ signed.approvals = recoveries[id].approvals \cup {caller}
      /\ signed.timelock_until = recoveries[id].timelock_until
  BY <1>2 DEF Recovery!EmergencyRecovery
<1>5. /\ recoveries'[id] = signed
      /\ \A other \in Recovery!RecoveryId \ {id} : recoveries'[other] = recoveries[other]
  <2> HIDE DEF signed
  <2> QED
    BY <1>2, <1>3
<1>6. /\ inProgress' = inProgress \cup {id}
      /\ approvedBy' = [approvedBy EXCEPT ![id] = recoveries[id].approvals \cup {caller}]
      /\ approvalsNeeded' = [approvalsNeeded EXCEPT ![id] = 1]
      /\ payableFrom' = [payableFrom EXCEPT ![id] = recoveries[id].timelock_until]
  <2> HIDE DEF signed
  <2> QED
    BY <1>1, <1>4, <1>5, PlaceReplaced
<1>7. Recovery!InProgress(id)
  BY <1>1 DEF Recovery!InProgress
<1>8. /\ id \in inProgress /\ approvedBy[id] = recoveries[id].approvals
      /\ approvalsNeeded[id] = 1 /\ payableFrom[id] = recoveries[id].timelock_until
  BY <1>7 DEF inProgress, approvedBy, approvalsNeeded, payableFrom
<1>9. /\ inProgress' = inProgress
      /\ approvalsNeeded' = approvalsNeeded /\ payableFrom' = payableFrom
  <2>1. inProgress' = inProgress
    BY <1>6, <1>8
  <2>2. approvalsNeeded' = approvalsNeeded
    BY <1>6, <1>7 DEF approvalsNeeded
  <2>3. payableFrom' = payableFrom
    BY <1>6, <1>7 DEF payableFrom
  <2> QED
    BY <2>1, <2>2, <2>3
<1>10. /\ caller \in Address \ approvedBy[id]
       /\ approvedBy' = [approvedBy EXCEPT ![id] = @ \cup {caller}]
  BY <1>1, <1>6, <1>8
<1>11. Recovery!Approved!Vote(id)
  BY <1>3, <1>8, <1>9, <1>10, ApprovedActions
<1> QED
  BY <1>11 DEF Recovery!Approved!Next

\* A payment runs an action with the approval it needs, after its timelock; a cancellation
\* drops it.
LEMMA CloseApproved ==
    ASSUME Recovery!RecoveryConstants, RecoveryInv, NEW caller \in Address,
           NEW id \in Recovery!RecoveryId,
           Recovery!ExecuteRecovery(caller, id) \/ Recovery!CancelRecovery(caller, id)
    PROVE  Recovery!Approved!Next
<1>1. Recovery!TypeOK /\ recoveries[id].status \in {"Pending", "Approved"}
  BY DEF RecoveryInv, Recovery!ExecuteRecovery, Recovery!CancelRecovery
<1>2. /\ recoveries[id] \in Recovery!EmergencyRecovery /\ Backed(id)
      /\ recoveries[id] # Recovery!NoRecovery
      /\ recoveries \in [Recovery!RecoveryId ->
                            Recovery!EmergencyRecovery \cup {Recovery!NoRecovery}]
  BY <1>1, RecoveryRead DEF Recovery!TypeOK, RecoveryInv
<1>3. Recovery!InProgress(id)
  BY <1>1 DEF Recovery!InProgress
<1>4. /\ id \in inProgress /\ approvedBy[id] = recoveries[id].approvals
      /\ approvalsNeeded[id] = 1 /\ payableFrom[id] = recoveries[id].timelock_until
  BY <1>3 DEF inProgress, approvedBy, approvalsNeeded, payableFrom
<1>5. /\ recoveries'[id].status \in {"Executed", "Cancelled"}
      /\ \A other \in Recovery!RecoveryId \ {id} : recoveries'[other] = recoveries[other]
      /\ UNCHANGED now
  <2>1. CASE Recovery!ExecuteRecovery(caller, id)
    <3> DEFINE paid == [recoveries[id] EXCEPT !.status = "Executed", !.executed_at = now]
    <3>1. recoveries' = [recoveries EXCEPT ![id] = paid] /\ UNCHANGED now
      BY <1>2, <2>1 DEF Recovery!ExecuteRecovery, Recovery!EmergencyRecovery
    <3>2. paid.status = "Executed"
      BY <1>2 DEF Recovery!EmergencyRecovery
    <3> HIDE DEF paid
    <3> QED
      BY <1>2, <3>1, <3>2
  <2>2. CASE Recovery!CancelRecovery(caller, id)
    <3> DEFINE closed == [recoveries[id] EXCEPT !.status = "Cancelled"]
    <3>1. recoveries' = [recoveries EXCEPT ![id] = closed] /\ UNCHANGED now
      BY <1>2, <2>2 DEF Recovery!CancelRecovery, Recovery!EmergencyRecovery
    <3>2. closed.status = "Cancelled"
      BY <1>2 DEF Recovery!EmergencyRecovery
    <3> HIDE DEF closed
    <3> QED
      BY <1>2, <3>1, <3>2
  <2> QED
    BY <2>1, <2>2
<1>6. /\ inProgress' = inProgress \ {id}
      /\ approvedBy' = [approvedBy EXCEPT ![id] = {}]
      /\ approvalsNeeded' = [approvalsNeeded EXCEPT ![id] = 0]
      /\ payableFrom' = [payableFrom EXCEPT ![id] = 0]
  <2>1. recoveries'[id].status \notin {"Pending", "Approved"}
    BY <1>5
  <2> QED
    BY <1>1, <1>5, <2>1, PlaceReplaced
<1>7. Recovery!Approved!Close(id)
  BY <1>4, <1>5, <1>6, ApprovedActions
<1>8. CASE Recovery!ExecuteRecovery(caller, id)
  <2>1. /\ recoveries[id].status = "Approved" /\ now >= recoveries[id].timelock_until
        /\ payments' = payments + 1
    BY <1>8 DEF Recovery!ExecuteRecovery
  <2>2. Cardinality(approvedBy[id]) >= 1
    <3>1. IsFiniteSet(approvedBy[id]) /\ approvedBy[id] # {}
      BY <1>2, <1>4, <2>1 DEF Backed
    <3>2. Cardinality(approvedBy[id]) \in Nat /\ Cardinality(approvedBy[id]) # 0
      BY <3>1, FS_CardinalityType, FS_EmptySet
    <3> QED
      BY <3>2
  <2>3. Recovery!Approved!Cardinality(approvedBy[id]) = Cardinality(approvedBy[id])
    BY DEF Recovery!Approved!Cardinality, Cardinality
  <2>4. /\ Recovery!Approved!Cardinality(approvedBy[id]) >= approvalsNeeded[id]
        /\ now >= payableFrom[id]
    BY <1>4, <2>1, <2>2, <2>3
  <2>5. Recovery!Approved!Run(id)
    BY <1>7, <2>1, <2>4 DEF Recovery!Approved!Run, approvedBy, approvalsNeeded, payableFrom
  <2> QED
    BY <2>5 DEF Recovery!Approved!Next
<1>9. CASE Recovery!CancelRecovery(caller, id)
  <2>1. UNCHANGED payments
    BY <1>9 DEF Recovery!CancelRecovery, Recovery!instanceVars
  <2>2. Recovery!Approved!Drop(id)
    BY <1>7, <2>1 DEF Recovery!Approved!Drop
  <2> QED
    BY <2>2 DEF Recovery!Approved!Next
<1> QED
  BY <1>8, <1>9

\* A recovery is paid at most once for each time it is proposed, after an approval and its
\* timelock: the contract implements ApprovedAction.
THEOREM RecoveriesAreApproved ==
    ASSUME Recovery!RecoveryConstants
    PROVE  Recovery!Spec => Recovery!RecoveriesApproved
<1>1. Recovery!Init => Recovery!Approved!Init
  BY ApprovedStart
<1>2. RecoveryInv /\ [Recovery!Next]_(Recovery!vars)
          => [Recovery!Approved!Next]_(Recovery!Approved!actionVars)
  <2> SUFFICES ASSUME RecoveryInv, [Recovery!Next]_(Recovery!vars)
               PROVE  [Recovery!Approved!Next]_(Recovery!Approved!actionVars)
    OBVIOUS
  <2>1. CASE Recovery!Tick
    <3>1. now' > now /\ UNCHANGED <<recoveries, payments>>
      BY <2>1 DEF Recovery!Tick, Recovery!recoveryVars, RecoveryInv, Recovery!TypeOK
    <3>2. Recovery!Approved!Wait
      BY <3>1 DEF Recovery!Approved!Wait, Recovery!InProgress, Recovery!RecoveryId
    <3> QED
      BY <3>2 DEF Recovery!Approved!Next
  <2>2. CASE UNCHANGED Recovery!vars
    BY <2>2, ApprovedStutter DEF Recovery!vars, Recovery!recoveryVars
  <2>3. CASE \E caller \in Address :
                \/ \E secs \in Timelocks : Recovery!InitializeRecovery(caller, secs)
                \/ \E enabled \in BOOLEAN : Recovery!SetEmergency(caller, enabled)
                \/ \E user \in Address, rights \in Grants :
                      Recovery!AddRecoveryAuthorizer(caller, user, rights)
    <3>1. UNCHANGED <<now, recoveries, payments>>
      BY <2>3 DEF Recovery!InitializeRecovery, Recovery!SetEmergency,
         Recovery!AddRecoveryAuthorizer, Recovery!instanceVars
    <3> QED
      BY <3>1, ApprovedStutter
  <2>4. CASE \E caller \in Address, destination \in Address, amount \in Amounts :
                Recovery!InitiateRecovery(caller, destination, amount)
    BY <2>4, InitiateApproved
  <2>5. CASE \E caller \in Address, id \in Recovery!RecoveryId :
                \/ Recovery!ApproveRecovery(caller, id)
                \/ Recovery!ExecuteRecovery(caller, id)
                \/ Recovery!CancelRecovery(caller, id)
    BY <2>5, ApproveApproved, CloseApproved
  <2> QED
    BY <2>1, <2>2, <2>3, <2>4, <2>5 DEF Recovery!Next
<1> QED
  BY <1>1, <1>2, RecoveryInvariant, PTL
     DEF Recovery!Spec, Recovery!RecoveriesApproved, Recovery!Approved!Spec

-----------------------------------------------------------------------------
(***************************************************************************)
(* Multi-signature treasury.                                               *)
(***************************************************************************)

\* What is recorded of a transaction: SignaturesDecide, of one of them, and finitely many
\* signatures.
Decided(t) ==
    /\ t \in Multisig!Transaction
    /\ IsFiniteSet(t.signers)
    /\ t.creator \in t.signers
    /\ t.status \in {"Pending", "Cancelled"} => ~Multisig!EnoughSignatures(t)
    /\ t.status = "Approved" => Multisig!EnoughSignatures(t)
    /\ t.status # "Executed"

\* The inductive invariant.
TreasuryInv ==
    /\ Multisig!TypeOK
    /\ \A id \in Multisig!TransactionId :
          transactions[id] # Multisig!NoTransaction => Decided(transactions[id])
    /\ config \in [threshold : Nat, emergency_threshold : Nat, time_delay : Nat,
                   max_transactions_per_day : Nat, require_emergency_approval : BOOLEAN]
    /\ Multisig!ThresholdReachable

\* The treasury counts as the library does.
LEMMA TreasuryCounts ==
    \A S : Multisig!Cardinality(S) = Cardinality(S)
BY DEF Multisig!Cardinality, Cardinality

\* A signature leaves a transaction decided, whatever its status was.
LEMMA SignedDecided ==
    ASSUME NEW t \in Multisig!Transaction, NEW who \in Account, IsFiniteSet(t.signers),
           t.creator \in t.signers \cup {who}, t.status # "Executed",
           t.status = "Approved" => Multisig!EnoughSignatures(t)
    PROVE  /\ Decided(Multisig!Signed(t, who))
           /\ Multisig!Signed(t, who).signers = t.signers \cup {who}
           /\ t.status = "Approved" => Multisig!Signed(t, who).status = "Approved"
<1> DEFINE counted == Cardinality(t.signers \cup {who})
           s == Multisig!Signed(t, who)
<1>1. /\ IsFiniteSet(t.signers \cup {who}) /\ counted \in Nat
      /\ Cardinality(t.signers) \in Nat /\ Cardinality(t.signers) <= counted
  <2>1. IsFiniteSet(t.signers \cup {who})
    BY FS_AddElement
  <2>2. Cardinality(t.signers) <= counted
    BY <2>1, FS_Subset
  <2> QED
    BY <2>1, <2>2, FS_CardinalityType
<1>2. t.required_signatures \in Nat /\ t.signers \subseteq Account
  BY DEF Multisig!Transaction
<1>3. /\ s.signers = t.signers \cup {who} /\ s.creator = t.creator
      /\ s.required_signatures = t.required_signatures
      /\ s.status = IF counted >= t.required_signatures THEN "Approved" ELSE t.status
  BY TreasuryCounts DEF Multisig!Signed, Multisig!Transaction
<1>4. s \in Multisig!Transaction
  BY DEF Multisig!Signed, Multisig!Transaction
<1>5. Multisig!EnoughSignatures(s) <=> counted >= t.required_signatures
  BY <1>3, TreasuryCounts DEF Multisig!EnoughSignatures
<1>6. t.status = "Approved" => counted >= t.required_signatures
  BY <1>1, <1>2, TreasuryCounts DEF Multisig!EnoughSignatures
<1>7. t.status = "Approved" => s.status = "Approved"
  BY <1>3
<1> HIDE DEF counted, s
<1>8. Decided(s)
  <2>1. s.status \in {"Pending", "Cancelled"} => ~Multisig!EnoughSignatures(s)
    BY <1>3, <1>5
  <2>2. s.status = "Approved" => Multisig!EnoughSignatures(s)
    BY <1>3, <1>5, <1>6
  <2>3. s.status # "Executed"
    BY <1>3
  <2> QED
    BY <1>1, <1>3, <1>4, <2>1, <2>2, <2>3 DEF Decided
<1> QED
  BY <1>3, <1>7, <1>8 DEF s

\* The invariant says what is checked of transactions.
LEMMA TreasuryDecided ==
    ASSUME TreasuryInv
    PROVE  Multisig!SignaturesDecide
BY DEF TreasuryInv, Decided, Multisig!SignaturesDecide

\* It holds at first.
LEMMA InitTreasury ==
    ASSUME Multisig!TreasuryConstants, Multisig!Init
    PROVE  TreasuryInv
<1>1. config \in [threshold : Nat, emergency_threshold : Nat, time_delay : Nat,
                  max_transactions_per_day : Nat, require_emergency_approval : BOOLEAN]
  BY DEF Multisig!TreasuryConstants, Multisig!Init
<1>2. PICK panel \in Panels : /\ Len(panel) >= config.threshold
                              /\ signers = Multisig!Range(panel)
                              /\ signer_count = Len(panel)
  BY DEF Multisig!Init
<1>3. panel \in Seq(Account) /\ Len(panel) \in Nat /\ Multisig!Range(panel) \subseteq Account
  BY DEF Multisig!TreasuryConstants, Multisig!Range
<1>4. \A id \in Multisig!TransactionId : transactions[id] = Multisig!NoTransaction
  BY DEF Multisig!Init
<1>5. Multisig!TypeOK
  <2>1. transactions \in [Multisig!TransactionId ->
                             Multisig!Transaction \cup {Multisig!NoTransaction}]
    BY DEF Multisig!Init
  <2>2. /\ now \in 0 .. MaxNow /\ admin \in Admins /\ whitelist \subseteq Asset
        /\ nonce \in 0 .. MaxNonce /\ tx_count \in Nat
    BY DEF Multisig!Init, Multisig!TreasuryConstants
  <2> QED
    BY <1>1, <1>2, <1>3, <2>1, <2>2 DEF Multisig!TypeOK
<1> QED
  BY <1>1, <1>2, <1>4, <1>5 DEF TreasuryInv, Multisig!ThresholdReachable

\* A call that replaces one transaction by a decided one keeps the transactions decided.
LEMMA TransactionReplaced ==
    ASSUME TreasuryInv, NEW id \in Multisig!TransactionId, NEW t, Decided(t),
           transactions' = [transactions EXCEPT ![id] = t]
    PROVE  /\ transactions' \in [Multisig!TransactionId ->
                                    Multisig!Transaction \cup {Multisig!NoTransaction}]
           /\ transactions'[id] = t
           /\ \A other \in Multisig!TransactionId :
                 transactions'[other] # Multisig!NoTransaction => Decided(transactions'[other])
           /\ \A other \in Multisig!TransactionId \ {id} :
                 transactions'[other] = transactions[other]
<1> DEFINE T == Multisig!Transaction \cup {Multisig!NoTransaction}
<1>1. transactions \in [Multisig!TransactionId -> T]
  BY DEF TreasuryInv, Multisig!TypeOK
<1>2. t \in T
  BY DEF Decided
<1> HIDE DEF T
<1>3. /\ transactions' \in [Multisig!TransactionId -> T] /\ transactions'[id] = t
      /\ \A other \in Multisig!TransactionId \ {id} :
            transactions'[other] = transactions[other]
  BY <1>1, <1>2, ChangedAt
<1>4. ASSUME NEW other \in Multisig!TransactionId,
             transactions'[other] # Multisig!NoTransaction
      PROVE  Decided(transactions'[other])
  <2>1. CASE other = id
    BY <1>3, <2>1
  <2>2. CASE other # id
    BY <1>3, <1>4, <2>2 DEF TreasuryInv
  <2> QED
    BY <2>1, <2>2
<1> QED
  BY <1>3, <1>4 DEF T

\* What a call leaves makes the invariant again.
LEMMA TreasuryRejoined ==
    ASSUME TreasuryInv,
           now' \in 0 .. MaxNow, admin' \in Admins, signers' \subseteq Account,
           signer_count' \in Nat, whitelist' \subseteq Asset, nonce' \in 0 .. MaxNonce,
           tx_count' \in Nat, signer_count' >= config'.threshold,
           config' \in [threshold : Nat, emergency_threshold : Nat, time_delay : Nat,
                        max_transactions_per_day : Nat, require_emergency_approval : BOOLEAN],
           transactions' \in [Multisig!TransactionId ->
                                 Multisig!Transaction \cup {Multisig!NoTransaction}],
           \A id \in Multisig!TransactionId :
              transactions'[id] # Multisig!NoTransaction => Decided(transactions'[id])
    PROVE  TreasuryInv'
<1>1. config'.threshold \in Nat /\ config'.emergency_threshold \in Nat
  OBVIOUS
<1>2. Multisig!TypeOK'
  BY <1>1 DEF Multisig!TypeOK, Multisig!TransactionId, Multisig!Transaction,
     Multisig!NoTransaction
<1>3. \A id \in Multisig!TransactionId' :
         transactions'[id] # Multisig!NoTransaction' => Decided(transactions'[id])
  BY DEF Multisig!TransactionId, Multisig!NoTransaction
<1>4. Multisig!ThresholdReachable'
  BY DEF Multisig!ThresholdReachable
<1> QED
  BY <1>2, <1>3, <1>4 DEF TreasuryInv, Decided, Multisig!EnoughSignatures, Multisig!Transaction

\* The types of what the invariant says of the other variables.
LEMMA TreasuryRead ==
    ASSUME Multisig!TreasuryConstants, TreasuryInv
    PROVE  /\ now \in 0 .. MaxNow /\ admin \in Admins /\ signers \subseteq Account
           /\ signer_count \in Nat /\ whitelist \subseteq Asset /\ nonce \in 0 .. MaxNonce
           /\ tx_count \in Nat /\ signer_count >= config.threshold
           /\ config \in [threshold : Nat, emergency_threshold : Nat, time_delay : Nat,
                          max_transactions_per_day : Nat, require_emergency_approval : BOOLEAN]
           /\ config.threshold \in Nat /\ config.emergency_threshold \in Nat
           /\ transactions \in [Multisig!TransactionId ->
                                   Multisig!Transaction \cup {Multisig!NoTransaction}]
           /\ \A id \in Multisig!TransactionId :
                 transactions[id] # Multisig!NoTransaction => Decided(transactions[id])
           /\ MaxNonce \in Nat /\ MaxNow \in Nat
BY DEF TreasuryInv, Multisig!TypeOK, Multisig!TreasuryConstants, Multisig!ThresholdReachable

\* A transaction that has a status is on record.
LEMMA TransactionOnRecord ==
    ASSUME TreasuryInv, NEW id \in Multisig!TransactionId, transactions[id].status # "None"
    PROVE  transactions[id] # Multisig!NoTransaction /\ Decided(transactions[id])
BY DEF TreasuryInv, Multisig!NoTransaction

\* Each call of the administrator keeps the invariant.
LEMMA AdministerTreasury ==
    ASSUME Multisig!TreasuryConstants, TreasuryInv,
           \/ \E who \in Account, panel \in Panels, cfg \in Configs :
                 Multisig!Initialize(who, panel, cfg)
           \/ \E who \in Account : Multisig!AddSigner(who) \/ Multisig!RemoveSigner(who)
           \/ \E threshold \in 1 .. MaxSigners : Multisig!UpdateThreshold(threshold)
           \/ \E asset \in Asset, listed \in BOOLEAN : Multisig!WhitelistAsset(asset, listed)
    PROVE  TreasuryInv' /\ UNCHANGED transactions
<1>1. UNCHANGED transactions
  BY DEF Multisig!Initialize, Multisig!AddSigner, Multisig!RemoveSigner,
     Multisig!UpdateThreshold, Multisig!WhitelistAsset
<1>2. /\ transactions' \in [Multisig!TransactionId ->
                               Multisig!Transaction \cup {Multisig!NoTransaction}]
      /\ \A id \in Multisig!TransactionId :
            transactions'[id] # Multisig!NoTransaction => Decided(transactions'[id])
  BY <1>1, TreasuryRead
<1>3. CASE \E who \in Account, panel \in Panels, cfg \in Configs :
              Multisig!Initialize(who, panel, cfg)
  <2> PICK who \in Account, panel \in Panels, cfg \in Configs :
              Multisig!Initialize(who, panel, cfg)
    BY <1>3
  <2>1. /\ who \in Admins /\ Len(panel) >= cfg.threshold
        /\ admin' = who /\ config' = cfg /\ nonce' = 0 /\ tx_count' = 0
        /\ signers' = signers \cup Multisig!Range(panel)
        /\ signer_count' = Len(panel)
        /\ UNCHANGED <<now, whitelist>>
    BY DEF Multisig!Initialize
  <2>2. /\ panel \in Seq(Account) /\ Len(panel) \in Nat
        /\ Multisig!Range(panel) \subseteq Account
        /\ cfg \in [threshold : Nat, emergency_threshold : Nat, time_delay : Nat,
                    max_transactions_per_day : Nat, require_emergency_approval : BOOLEAN]
    BY DEF Multisig!TreasuryConstants, Multisig!Range
  <2>3. /\ now' \in 0 .. MaxNow /\ admin' \in Admins /\ signers' \subseteq Account
        /\ signer_count' \in Nat /\ whitelist' \subseteq Asset /\ nonce' \in 0 .. MaxNonce
        /\ tx_count' \in Nat
    BY <2>1, <2>2, TreasuryRead, SMTT(30)
  <2>4. signer_count' >= config'.threshold
    BY <2>1
  <2>5. config' \in [threshold : Nat, emergency_threshold : Nat, time_delay : Nat,
                     max_transactions_per_day : Nat, require_emergency_approval : BOOLEAN]
    BY <2>1, <2>2
  <2> QED
    BY <1>1, <1>2, <2>3, <2>4, <2>5, TreasuryRejoined
<1>4. CASE \E who \in Account : Multisig!AddSigner(who) \/ Multisig!RemoveSigner(who)
  <2> PICK who \in Account : Multisig!AddSigner(who) \/ Multisig!RemoveSigner(who)
    BY <1>4
  <2>1. UNCHANGED <<now, admin, config, whitelist, nonce, tx_count>>
    BY DEF Multisig!AddSigner, Multisig!RemoveSigner
  <2>2. /\ signers' \subseteq Account /\ signer_count' \in Nat
        /\ signer_count' >= config.threshold
    BY TreasuryRead DEF Multisig!AddSigner, Multisig!RemoveSigner
  <2> QED
    BY <1>1, <1>2, <2>1, <2>2, TreasuryRead, TreasuryRejoined
<1>5. CASE \E threshold \in 1 .. MaxSigners : Multisig!UpdateThreshold(threshold)
  <2> PICK threshold \in 1 .. MaxSigners : Multisig!UpdateThreshold(threshold)
    BY <1>5
  <2>1. /\ threshold \in 1 .. signer_count
        /\ config' = [config EXCEPT !.threshold = threshold]
        /\ UNCHANGED <<now, admin, signers, signer_count, whitelist, nonce, tx_count>>
    BY DEF Multisig!UpdateThreshold
  <2>2. threshold \in Nat /\ signer_count >= threshold
    BY <2>1, TreasuryRead
  <2>3. /\ config' \in [threshold : Nat, emergency_threshold : Nat, time_delay : Nat,
                        max_transactions_per_day : Nat, require_emergency_approval : BOOLEAN]
        /\ config'.threshold = threshold
    BY <2>1, <2>2, TreasuryRead
  <2> QED
    BY <1>1, <1>2, <2>1, <2>2, <2>3, TreasuryRead, TreasuryRejoined
<1>6. CASE \E asset \in Asset, listed \in BOOLEAN : Multisig!WhitelistAsset(asset, listed)
  <2>1. /\ whitelist' \subseteq Asset
        /\ UNCHANGED <<now, admin, config, signers, signer_count, nonce, tx_count>>
    BY <1>6, TreasuryRead DEF Multisig!WhitelistAsset
  <2> QED
    BY <1>1, <1>2, <2>1, TreasuryRead, TreasuryRejoined
<1> QED
  BY <1>3, <1>4, <1>5, <1>6

\* A proposal takes the next number, signed by its creator.
LEMMA ProposeKeeps ==
    ASSUME Multisig!TreasuryConstants, TreasuryInv, NEW who \in Account, NEW asset \in Asset,
           NEW amount \in Amounts, NEW urgent \in BOOLEAN,
           Multisig!ProposeTransaction(who, asset, amount, urgent)
    PROVE  TreasuryInv' /\ nonce' # nonce
<1> DEFINE asked == IF urgent /\ config.require_emergency_approval
                    THEN config.emergency_threshold ELSE config.threshold
           delay == IF amount > SpendingLimit THEN config.time_delay ELSE 0
           fresh == [status |-> "Pending", creator |-> who, asset |-> asset,
                     required_signatures |-> asked, signers |-> {},
                     execution_time |-> now + delay]
<1>1. /\ nonce < MaxNonce /\ nonce' = nonce + 1 /\ tx_count' = tx_count + 1
      /\ transactions' = [transactions EXCEPT ![nonce + 1] = Multisig!Signed(fresh, who)]
      /\ UNCHANGED <<now, admin, config, signers, signer_count, whitelist>>
  BY DEF Multisig!ProposeTransaction
<1>2. /\ nonce \in Nat /\ MaxNonce \in Nat /\ now \in Nat /\ asked \in Nat /\ delay \in Nat
  <2>1. nonce \in Nat /\ MaxNonce \in Nat /\ now \in Nat
    BY TreasuryRead
  <2>2. asked \in Nat
    BY TreasuryRead
  <2>3. config.time_delay \in Nat
    BY TreasuryRead
  <2> QED
    BY <2>1, <2>2, <2>3
<1>3. PICK id \in Multisig!TransactionId : id = nonce + 1
  <2>1. nonce + 1 \in 1 .. MaxNonce
    BY <1>1, <1>2
  <2> QED
    BY <2>1 DEF Multisig!TransactionId
<1>4. fresh \in Multisig!Transaction
  <2> now + delay \in Nat
    BY <1>2
  <2> HIDE DEF asked, delay
  <2> QED
    BY <1>2 DEF Multisig!Transaction
<1>5. /\ IsFiniteSet(fresh.signers) /\ fresh.creator \in fresh.signers \cup {who}
      /\ fresh.status # "Executed" /\ fresh.status # "Approved"
  BY FS_EmptySet
<1> HIDE DEF fresh
<1>6. Decided(Multisig!Signed(fresh, who))
  BY <1>4, <1>5, SignedDecided
<1>7. transactions' = [transactions EXCEPT ![id] = Multisig!Signed(fresh, who)]
  BY <1>1, <1>3
<1>8. /\ transactions' \in [Multisig!TransactionId ->
                               Multisig!Transaction \cup {Multisig!NoTransaction}]
      /\ \A other \in Multisig!TransactionId :
            transactions'[other] # Multisig!NoTransaction => Decided(transactions'[other])
  BY <1>6, <1>7, TransactionReplaced
<1>9. nonce' \in 0 .. MaxNonce /\ nonce' # nonce /\ tx_count' \in Nat
  BY <1>1, <1>2, TreasuryRead
<1> QED
  BY <1>1, <1>8, <1>9, TreasuryRead, TreasuryRejoined

\* A signature, and a cancellation of a transaction that lacks some.
LEMMA SignKeeps ==
    ASSUME Multisig!TreasuryConstants, TreasuryInv, NEW who \in Account,
           NEW id \in Multisig!TransactionId,
           Multisig!SignTransaction(who, id) \/ Multisig!CancelTransaction(who, id)
    PROVE  /\ TreasuryInv'
           /\ transactions[id] # Multisig!NoTransaction
           /\ \A other \in Multisig!TransactionId \ {id} :
                 transactions'[other] = transactions[other]
           /\ transactions[id].signers \subseteq transactions'[id].signers
           /\ transactions'[id].signers \ transactions[id].signers \subseteq signers
           /\ transactions[id].status = "Approved" => transactions'[id].status = "Approved"
<1>1. transactions[id] # Multisig!NoTransaction /\ Decided(transactions[id])
  BY TransactionOnRecord DEF Multisig!SignTransaction, Multisig!CancelTransaction, TreasuryInv
<1>2. UNCHANGED <<now, admin, config, signers, signer_count, whitelist, nonce, tx_count>>
  BY DEF Multisig!SignTransaction, Multisig!CancelTransaction
<1>3. PICK t : /\ transactions' = [transactions EXCEPT ![id] = t] /\ Decided(t)
               /\ transactions[id].signers \subseteq t.signers
               /\ t.signers \ transactions[id].signers \subseteq signers
               /\ transactions[id].status = "Approved" => t.status = "Approved"
  <2>1. CASE Multisig!SignTransaction(who, id)
    <3> DEFINE t == Multisig!Signed(transactions[id], who)
    <3>1. transactions' = [transactions EXCEPT ![id] = t] /\ who \in signers
      BY <2>1 DEF Multisig!SignTransaction
    <3>2. /\ Decided(t) /\ t.signers = transactions[id].signers \cup {who}
          /\ transactions[id].status = "Approved" => t.status = "Approved"
      BY <1>1, SignedDecided DEF Decided
    <3> HIDE DEF t
    <3> QED
      BY <3>1, <3>2
  <2>2. CASE Multisig!CancelTransaction(who, id)
    <3> DEFINE t == [transactions[id] EXCEPT !.status = "Cancelled"]
    <3>1. transactions' = [transactions EXCEPT ![id] = t] /\ transactions[id].status = "Pending"
      BY <2>2 DEF Multisig!CancelTransaction
    <3>2. /\ t.signers = transactions[id].signers /\ t.creator = transactions[id].creator
          /\ t.required_signatures = transactions[id].required_signatures
          /\ t.status = "Cancelled" /\ t \in Multisig!Transaction
      BY <1>1 DEF Decided, Multisig!Transaction
    <3> HIDE DEF t
    <3>3. Decided(t)
      BY <1>1, <3>1, <3>2 DEF Decided, Multisig!EnoughSignatures
    <3> QED
      BY <3>1, <3>2, <3>3
  <2> QED
    BY <2>1, <2>2
<1>4. /\ transactions' \in [Multisig!TransactionId ->
                               Multisig!Transaction \cup {Multisig!NoTransaction}]
      /\ transactions'[id] = t
      /\ \A other \in Multisig!TransactionId :
            transactions'[other] # Multisig!NoTransaction => Decided(transactions'[other])
      /\ \A other \in Multisig!TransactionId \ {id} :
            transactions'[other] = transactions[other]
  BY <1>3, TransactionReplaced
<1>5. TreasuryInv'
  BY <1>2, <1>4, TreasuryRead, TreasuryRejoined
<1> QED
  BY <1>1, <1>3, <1>4, <1>5

\* No transaction is executed: a pending one lacks a signature.
LEMMA NoneExecuted ==
    ASSUME TreasuryInv, NEW id \in Multisig!TransactionId
    PROVE  ~Multisig!ExecuteTransaction(id)
<1> SUFFICES ASSUME Multisig!ExecuteTransaction(id)
             PROVE  FALSE
  OBVIOUS
<1>1. transactions[id].status = "Pending" /\ Multisig!EnoughSignatures(transactions[id])
  BY DEF Multisig!ExecuteTransaction
<1> QED
  BY <1>1, TransactionOnRecord DEF Decided

\* What every step does: it keeps the invariant, and changes a transaction on record only
\* by the proposal that takes its number, by a signature or by a cancellation.
LEMMA NextTreasury ==
    ASSUME Multisig!TreasuryConstants, TreasuryInv, [Multisig!Next]_(Multisig!vars)
    PROVE  /\ TreasuryInv'
           /\ nonce' = nonce => \A id \in Multisig!TransactionId :
                 transactions[id] # Multisig!NoTransaction =>
                    /\ transactions[id].signers \subseteq transactions'[id].signers
                    /\ transactions'[id].signers \ transactions[id].signers \subseteq signers
                    /\ transactions[id].status = "Approved" =>
                          transactions'[id].status = "Approved"
<1>1. CASE Multisig!Tick \/ UNCHANGED Multisig!vars
  <2>1. now' \in 0 .. MaxNow /\ UNCHANGED Multisig!treasuryVars
    BY <1>1, TreasuryRead DEF Multisig!Tick, Multisig!vars
  <2>2. UNCHANGED <<admin, config, signers, signer_count, whitelist, nonce, tx_count,
                    transactions>>
    BY <2>1 DEF Multisig!treasuryVars
  <2>3. TreasuryInv'
    BY <2>1, <2>2, TreasuryRead, TreasuryRejoined
  <2> QED
    BY <2>2, <2>3
<1>2. CASE \/ \E who \in Account, panel \in Panels, cfg \in Configs :
                 Multisig!Initialize(who, panel, cfg)
           \/ \E who \in Account : Multisig!AddSigner(who) \/ Multisig!RemoveSigner(who)
           \/ \E threshold \in 1 .. MaxSigners : Multisig!UpdateThreshold(threshold)
           \/ \E asset \in Asset, listed \in BOOLEAN : Multisig!WhitelistAsset(asset, listed)
  <2>1. TreasuryInv' /\ UNCHANGED transactions
    BY <1>2, AdministerTreasury
  <2> QED
    BY <2>1
<1>3. CASE \E who \in Account, asset \in Asset, amount \in Amounts, urgent \in BOOLEAN :
              Multisig!ProposeTransaction(who, asset, amount, urgent)
  <2>1. TreasuryInv' /\ nonce' # nonce
    BY <1>3, ProposeKeeps
  <2> QED
    BY <2>1
<1>4. CASE \E who \in Account, id \in Multisig!TransactionId :
              Multisig!SignTransaction(who, id) \/ Multisig!CancelTransaction(who, id)
  <2> PICK who \in Account, signed \in Multisig!TransactionId :
              Multisig!SignTransaction(who, signed) \/ Multisig!CancelTransaction(who, signed)
    BY <1>4
  <2>1. /\ TreasuryInv'
        /\ \A other \in Multisig!TransactionId \ {signed} :
              transactions'[other] = transactions[other]
        /\ transactions[signed].signers \subseteq transactions'[signed].signers
        /\ transactions'[signed].signers \ transactions[signed].signers \subseteq signers
        /\ transactions[signed].status = "Approved" =>
              transactions'[signed].status = "Approved"
    BY SignKeeps
  <2>2. ASSUME NEW id \in Multisig!TransactionId
        PROVE  /\ transactions[id].signers \subseteq transactions'[id].signers
               /\ transactions'[id].signers \ transactions[id].signers \subseteq signers
               /\ transactions[id].status = "Approved" =>
                     transactions'[id].status = "Approved"
    <3>1. CASE id = signed
      BY <2>1, <3>1
    <3>2. CASE id # signed
      BY <2>1, <3>2
    <3> QED
      BY <3>1, <3>2
  <2> QED
    BY <2>1, <2>2
<1>5. ~\E id \in Multisig!TransactionId : Multisig!ExecuteTransaction(id)
  BY NoneExecuted
<1> QED
  BY <1>1, <1>2, <1>3, <1>4, <1>5 DEF Multisig!Next

\* The invariant holds of every behaviour.
LEMMA TreasuryInvariant ==
    ASSUME Multisig!TreasuryConstants
    PROVE  Multisig!Spec => []TreasuryInv
<1>1. Multisig!Init => TreasuryInv
  BY InitTreasury
<1>2. TreasuryInv /\ [Multisig!Next]_(Multisig!vars) => TreasuryInv'
  BY NextTreasury
<1> QED
  BY <1>1, <1>2, PTL DEF Multisig!Spec

\* Every variable of the treasury holds values of its type.
THEOREM TreasuryTyped ==
    ASSUME Multisig!TreasuryConstants
    PROVE  Multisig!Spec => []Multisig!TypeOK
<1>1. TreasuryInv => Multisig!TypeOK
  BY DEF TreasuryInv
<1> QED
  BY <1>1, TreasuryInvariant, PTL

\* The signatures decide what status a transaction has, and none is ever executed: the
\* signature that completes it takes the status execute_transaction asks for.
THEOREM SignaturesDecideStatus ==
    ASSUME Multisig!TreasuryConstants
    PROVE  Multisig!Spec => []Multisig!SignaturesDecide
<1>1. TreasuryInv => Multisig!SignaturesDecide
  BY TreasuryDecided
<1> QED
  BY <1>1, TreasuryInvariant, PTL

\* The number of signers the treasury counts is never below the threshold in force.
THEOREM ThresholdStaysReachable ==
    ASSUME Multisig!TreasuryConstants
    PROVE  Multisig!Spec => []Multisig!ThresholdReachable
<1>1. TreasuryInv => Multisig!ThresholdReachable
  BY DEF TreasuryInv
<1> QED
  BY <1>1, TreasuryInvariant, PTL

\* A transaction on record gains the signatures of signers only, loses none, and stays
\* approved.
THEOREM OnlySignersSign ==
    ASSUME Multisig!TreasuryConstants
    PROVE  Multisig!Spec => Multisig!SignedBySigners
<1> DEFINE A == \A id \in Multisig!TransactionId :
                   nonce' = nonce /\ transactions[id] # Multisig!NoTransaction =>
                      /\ transactions[id].signers \subseteq transactions'[id].signers
                      /\ transactions'[id].signers \ transactions[id].signers \subseteq signers
                      /\ transactions[id].status = "Approved" =>
                            transactions'[id].status = "Approved"
<1>1. TreasuryInv /\ [Multisig!Next]_(Multisig!vars) => [A]_(Multisig!vars)
  BY NextTreasury
<1> QED
  BY <1>1, TreasuryInvariant, PTL DEF Multisig!Spec, Multisig!SignedBySigners

-----------------------------------------------------------------------------
(***************************************************************************)
(* Circuit breaker.                                                        *)
(***************************************************************************)

Request == [pause_id : Breaker!PauseId, approvals : 1 .. MaxApprovals, threshold : {Threshold}]

\* What holds of the pauses and the requests.
BreakerOpen ==
    /\ pause_count \in 0 .. MaxPauses
    /\ pauses \in [Breaker!PauseId -> Breaker!Scope \cup {Breaker!NoPause}]
    /\ requests \in Seq(Request)
    /\ Breaker!RequestsLive

\* What holds of the rest.
BreakerAside ==
    /\ guardians \in [Address -> Breaker!Role \cup {Breaker!NoRole}]
    /\ Cardinality(listed_addresses) <= MaxWhitelist
    /\ Cardinality(listed_assets) <= MaxWhitelist
    /\ IsFiniteSet(listed_addresses) /\ IsFiniteSet(listed_assets)

\* The inductive invariant.
BreakerInv == BreakerOpen /\ BreakerAside

\* The breaker counts as the library does.
LEMMA BreakerCounts ==
    \A S : Breaker!Cardinality(S) = Cardinality(S)
BY DEF Breaker!Cardinality, Cardinality

\* The invariant says what is checked of the breaker.
LEMMA BreakerChecked ==
    BreakerInv => Breaker!TypeOK /\ Breaker!RequestsLive
BY BreakerCounts DEF BreakerInv, BreakerOpen, BreakerAside, Breaker!TypeOK, Request

\* A scope is something to pause.
LEMMA ScopeNamed ==
    ASSUME NEW scope \in Breaker!Scope
    PROVE  scope # Breaker!NoPause
<1>1. CASE scope = <<"Global">>
  BY <1>1 DEF Breaker!NoPause
<1>2. CASE scope \in {"Bridge"} \X Bridge \/ scope \in {"Asset"} \X Asset
  BY <1>2 DEF Breaker!NoPause
<1> QED
  BY <1>1, <1>2 DEF Breaker!Scope

\* It holds at first.
LEMMA InitBreaker ==
    ASSUME Breaker!BreakerConstants, Breaker!Init
    PROVE  BreakerInv
<1>1. BreakerOpen
  BY DEF Breaker!BreakerConstants, Breaker!Init, BreakerOpen, Breaker!RequestsLive
<1>2. BreakerAside
  <2>1. IsFiniteSet({}) /\ Cardinality({}) = 0
    BY FS_EmptySet
  <2> QED
    BY <2>1 DEF Breaker!BreakerConstants, Breaker!Init, BreakerAside
<1> QED
  BY <1>1, <1>2 DEF BreakerInv

\* A call on the guardians and the lists.
Sideways ==
    \/ \E a \in Address, role \in Breaker!Role : Breaker!AddGuardian(a, role)
    \/ \E a \in Address : Breaker!RemoveGuardian(a) \/ Breaker!AddToAddressWhitelist(a)
    \/ \E asset \in Asset : Breaker!AddAssetToWhitelist(asset)
    \/ \E t \in Alert, trigger \in Triggers : Breaker!SetTriggerConfig(t, trigger)

\* The calls on the guardians and the lists leave the pauses and requests alone.
LEMMA SidewaysOpen ==
    ASSUME Breaker!BreakerConstants, BreakerInv, Sideways
    PROVE  BreakerInv' /\ UNCHANGED <<pause_count, pauses, requests>>
<1>1. UNCHANGED <<pause_count, pauses, requests>>
  BY DEF Sideways, Breaker!AddGuardian, Breaker!RemoveGuardian,
     Breaker!AddToAddressWhitelist, Breaker!AddAssetToWhitelist, Breaker!SetTriggerConfig
<1>2. BreakerOpen'
  BY <1>1 DEF BreakerInv, BreakerOpen, Breaker!RequestsLive, Breaker!PauseId,
     Breaker!Scope, Breaker!NoPause, Request
<1>3. BreakerAside
  BY DEF BreakerInv
<1>4. guardians' \in [Address -> Breaker!Role \cup {Breaker!NoRole}]
  BY <1>3 DEF BreakerAside, Sideways, Breaker!AddGuardian, Breaker!RemoveGuardian,
     Breaker!AddToAddressWhitelist, Breaker!AddAssetToWhitelist, Breaker!SetTriggerConfig
<1>5. IsFiniteSet(listed_addresses') /\ Cardinality(listed_addresses') <= MaxWhitelist
  <2>1. CASE UNCHANGED listed_addresses
    BY <1>3, <2>1 DEF BreakerAside
  <2>2. CASE \E a \in Address : Breaker!AddToAddressWhitelist(a)
    <3>1. PICK a \in Address : /\ Cardinality(listed_addresses) < MaxWhitelist
                               /\ a \notin listed_addresses
                               /\ listed_addresses' = listed_addresses \cup {a}
      BY <2>2, BreakerCounts DEF Breaker!AddToAddressWhitelist
    <3>2. /\ IsFiniteSet(listed_addresses')
          /\ Cardinality(listed_addresses') = Cardinality(listed_addresses) + 1
          /\ Cardinality(listed_addresses) \in Nat
      BY <1>3, <3>1, FS_AddElement, FS_CardinalityType DEF BreakerAside
    <3> QED
      BY <3>1, <3>2 DEF Breaker!BreakerConstants
  <2> QED
    BY <2>1, <2>2 DEF Sideways, Breaker!AddGuardian, Breaker!RemoveGuardian,
       Breaker!AddAssetToWhitelist, Breaker!SetTriggerConfig
<1>6. IsFiniteSet(listed_assets') /\ Cardinality(listed_assets') <= MaxWhitelist
  <2>1. CASE UNCHANGED listed_assets
    BY <1>3, <2>1 DEF BreakerAside
  <2>2. CASE \E asset \in Asset : Breaker!AddAssetToWhitelist(asset)
    <3>1. PICK asset \in Asset : /\ Cardinality(listed_assets) < MaxWhitelist
                                 /\ asset \notin listed_assets
                                 /\ listed_assets' = listed_assets \cup {asset}
      BY <2>2, BreakerCounts DEF Breaker!AddAssetToWhitelist
    <3>2. /\ IsFiniteSet(listed_assets')
          /\ Cardinality(listed_assets') = Cardinality(listed_assets) + 1
          /\ Cardinality(listed_assets) \in Nat
      BY <1>3, <3>1, FS_AddElement, FS_CardinalityType DEF BreakerAside
    <3> QED
      BY <3>1, <3>2 DEF Breaker!BreakerConstants
  <2> QED
    BY <2>1, <2>2 DEF Sideways, Breaker!AddGuardian, Breaker!RemoveGuardian,
       Breaker!AddToAddressWhitelist, Breaker!SetTriggerConfig
<1>7. BreakerAside'
  BY <1>4, <1>5, <1>6 DEF BreakerAside, Breaker!Role, Breaker!NoRole
<1>8. BreakerInv'
  BY <1>2, <1>7 DEF BreakerInv
<1> QED
  BY <1>1, <1>8

\* What is known of a request.
LEMMA RequestRead ==
    ASSUME requests \in Seq(Request), NEW k \in DOMAIN requests
    PROVE  /\ requests[k] \in Request /\ requests[k].pause_id \in Breaker!PauseId
           /\ requests[k].threshold = Threshold
<1>1. requests[k] \in Request
  OBVIOUS
<1> QED
  BY <1>1 DEF Request

\* The calls on pauses leave the guardians and the lists alone.
LEMMA AsideKept ==
    ASSUME BreakerInv, UNCHANGED <<guardians, listed_addresses, listed_assets>>
    PROVE  BreakerAside'
BY DEF BreakerInv, BreakerAside, Breaker!Role, Breaker!NoRole

\* A pause takes the next number; the pauses in force stay.
LEMMA PauseKeeps ==
    ASSUME Breaker!BreakerConstants, BreakerInv, NEW a \in Address, NEW scope \in Breaker!Scope,
           Breaker!Pause(a, scope)
    PROVE  /\ BreakerInv' /\ pause_count' = pause_count + 1
           /\ \A id \in 1 .. pause_count : pauses'[id] = pauses[id]
<1> DEFINE T == Breaker!Scope \cup {Breaker!NoPause}
<1>1. /\ pause_count < MaxPauses /\ pause_count' = pause_count + 1
      /\ pauses' = [pauses EXCEPT ![pause_count + 1] = scope]
      /\ UNCHANGED <<requests, guardians, listed_addresses, listed_assets>>
  BY DEF Breaker!Pause
<1>2. /\ pause_count \in Nat /\ MaxPauses \in Nat /\ pauses \in [Breaker!PauseId -> T]
      /\ requests \in Seq(Request) /\ Breaker!RequestsLive
      /\ Breaker!PauseId = 1 .. MaxPauses
  BY DEF BreakerInv, BreakerOpen, Breaker!BreakerConstants, Breaker!PauseId
<1>3. pause_count + 1 \in Breaker!PauseId /\ pause_count' \in 0 .. MaxPauses
  BY <1>1, <1>2
<1>4. /\ pauses' \in [Breaker!PauseId -> T]
      /\ \A id \in Breaker!PauseId : pauses'[id] \in {pauses[id], scope}
      /\ \A id \in 1 .. pause_count : pauses'[id] = pauses[id]
  BY <1>1, <1>2, <1>3
<1>5. Breaker!RequestsLive'
  <2>1. /\ \A k \in DOMAIN requests : pauses[requests[k].pause_id] # Breaker!NoPause
        /\ \A j, k \in DOMAIN requests :
              requests[j].pause_id = requests[k].pause_id => j = k
    BY <1>2 DEF Breaker!RequestsLive
  <2>2. ASSUME NEW k \in DOMAIN requests
        PROVE  pauses'[requests[k].pause_id] # Breaker!NoPause
    <3>1. requests[k].pause_id \in Breaker!PauseId
      BY <1>2, RequestRead
    <3> QED
      BY <1>4, <2>1, <3>1, ScopeNamed
  <2> QED
    BY <1>1, <2>1, <2>2 DEF Breaker!RequestsLive, Breaker!NoPause
<1>6. BreakerOpen'
  BY <1>1, <1>2, <1>3, <1>4, <1>5 DEF BreakerOpen, Request, Breaker!PauseId, Breaker!Scope,
     Breaker!NoPause
<1>7. BreakerAside'
  BY <1>1, AsideKept
<1> QED
  BY <1>1, <1>4, <1>6, <1>7 DEF BreakerInv

\* A request is of a pause in force that has none; an approval adds to its count.
LEMMA RequestKeeps ==
    ASSUME Breaker!BreakerConstants, BreakerInv, NEW a \in Address, NEW id \in Breaker!PauseId,
           Breaker!RequestRecovery(a, id) \/ Breaker!ApproveRecovery(a, id)
    PROVE  BreakerInv' /\ UNCHANGED <<pause_count, pauses>>
<1>1. /\ UNCHANGED <<pause_count, pauses, guardians, listed_addresses, listed_assets>>
      /\ requests \in Seq(Request) /\ MaxApprovals \in Nat \ {0}
      /\ \A k \in DOMAIN requests : pauses[requests[k].pause_id] # Breaker!NoPause
      /\ \A j, k \in DOMAIN requests :
              requests[j].pause_id = requests[k].pause_id => j = k
  BY DEF BreakerInv, BreakerOpen, Breaker!RequestsLive, Breaker!RequestRecovery,
     Breaker!ApproveRecovery, Breaker!BreakerConstants
<1>2. /\ requests' \in Seq(Request)
      /\ \A k \in DOMAIN requests' : pauses[requests'[k].pause_id] # Breaker!NoPause
      /\ \A j, k \in DOMAIN requests' :
              requests'[j].pause_id = requests'[k].pause_id => j = k
  <2>1. CASE Breaker!RequestRecovery(a, id)
    <3> DEFINE r == [pause_id |-> id, approvals |-> 1, threshold |-> Threshold]
    <3>1. /\ pauses[id] # Breaker!NoPause /\ requests' = Append(requests, r)
          /\ \A k \in DOMAIN requests : requests[k].pause_id # id
      BY <2>1 DEF Breaker!RequestRecovery, Breaker!Requested
    <3>2. r \in Request /\ r.pause_id = id
      BY <1>1 DEF Request
    <3> HIDE DEF r
    <3>3. /\ requests' \in Seq(Request) /\ Len(requests) \in Nat
          /\ DOMAIN requests = 1 .. Len(requests)
          /\ DOMAIN requests' = 1 .. Len(requests) + 1
          /\ \A k \in 1 .. Len(requests) : requests'[k] = requests[k]
          /\ requests'[Len(requests) + 1] = r
      BY <1>1, <3>1, <3>2
    <3>4. \A k \in DOMAIN requests' : k \in DOMAIN requests \/ k = Len(requests) + 1
      BY <3>3
    <3>5. \A k \in DOMAIN requests : requests'[k].pause_id # id
      BY <3>1, <3>3
    <3> QED
      BY <1>1, <3>1, <3>2, <3>3, <3>4, <3>5
  <2>2. CASE Breaker!ApproveRecovery(a, id)
    <3>1. PICK k \in Breaker!Requested(id) :
                /\ requests[k].approvals < MaxApprovals
                /\ requests' = [requests EXCEPT ![k].approvals = @ + 1]
      BY <2>2 DEF Breaker!ApproveRecovery
    <3> DEFINE r == [requests[k] EXCEPT !.approvals = @ + 1]
    <3>2. k \in DOMAIN requests /\ requests[k] \in Request
      BY <1>1, <3>1 DEF Breaker!Requested
    <3>3. requests' = [requests EXCEPT ![k] = r]
      BY <3>1, <3>2 DEF Request
    <3>4. r \in Request /\ r.pause_id = requests[k].pause_id
      <4>1. requests[k].approvals + 1 \in 1 .. MaxApprovals
        BY <1>1, <3>1, <3>2 DEF Request
      <4> QED
        BY <3>2, <4>1 DEF Request
    <3> HIDE DEF r
    <3>5. /\ requests' \in Seq(Request) /\ DOMAIN requests' = DOMAIN requests
          /\ \A j \in DOMAIN requests : requests'[j].pause_id = requests[j].pause_id
      BY <1>1, <3>2, <3>3, <3>4
    <3> QED
      BY <1>1, <3>5
  <2> QED
    BY <2>1, <2>2
<1>3. Breaker!RequestsLive'
  BY <1>1, <1>2 DEF Breaker!RequestsLive, Breaker!NoPause
<1>4. BreakerOpen'
  BY <1>1, <1>2, <1>3 DEF BreakerInv, BreakerOpen, Request, Breaker!PauseId, Breaker!Scope,
     Breaker!NoPause
<1>5. BreakerAside'
  BY <1>1, AsideKept
<1> QED
  BY <1>1, <1>4, <1>5 DEF BreakerInv

\* A recovery lifts the pause of a request with its approvals, and takes the request away.
LEMMA LiftKeeps ==
    ASSUME Breaker!BreakerConstants, BreakerInv, NEW a \in Address, NEW id \in Breaker!PauseId,
           Breaker!ExecuteRecovery(a, id)
    PROVE  /\ BreakerInv' /\ UNCHANGED pause_count
           /\ \A other \in Breaker!PauseId \ {id} : pauses'[other] = pauses[other]
           /\ \E k \in DOMAIN requests :
                 requests[k].pause_id = id /\ requests[k].approvals >= Threshold
<1> DEFINE T == Breaker!Scope \cup {Breaker!NoPause}
           n == Len(requests)
<1>1. /\ UNCHANGED <<pause_count, guardians, listed_addresses, listed_assets>>
      /\ pauses' = [pauses EXCEPT ![id] = Breaker!NoPause]
      /\ pauses \in [Breaker!PauseId -> T]
      /\ requests \in Seq(Request)
      /\ \A k \in DOMAIN requests : pauses[requests[k].pause_id] # Breaker!NoPause
      /\ \A j, k \in DOMAIN requests :
              requests[j].pause_id = requests[k].pause_id => j = k
  BY DEF BreakerInv, BreakerOpen, Breaker!RequestsLive, Breaker!ExecuteRecovery
<1>2. PICK k \in DOMAIN requests :
          /\ requests[k].pause_id = id /\ requests[k].approvals >= requests[k].threshold
          /\ requests' = [j \in 1 .. n - 1 |-> IF j < k THEN requests[j] ELSE requests[j + 1]]
  BY DEF Breaker!ExecuteRecovery, Breaker!Requested
<1>3. /\ n \in Nat /\ DOMAIN requests = 1 .. n /\ k \in 1 .. n /\ n - 1 \in Nat
      /\ requests[k].threshold = Threshold
      /\ \A j \in 1 .. n : requests[j] \in Request
  <2>1. n \in Nat /\ DOMAIN requests = 1 .. n /\ k \in 1 .. n
    BY <1>1, <1>2
  <2>2. n - 1 \in Nat
    BY <2>1
  <2> QED
    BY <1>1, <1>2, <2>1, <2>2, RequestRead
<1>4. \A j \in 1 .. n - 1 : j \in 1 .. n /\ j + 1 \in 1 .. n
  BY <1>3
<1>5. requests' \in Seq(Request) /\ DOMAIN requests' = 1 .. n - 1
  <2>1. \A j \in 1 .. n - 1 : requests'[j] \in Request
    BY <1>2, <1>3, <1>4
  <2>2. requests' \in [1 .. n - 1 -> Request]
    BY <1>2, <2>1
  <2> HIDE DEF n
  <2> QED
    BY <1>3, <2>2
<1> DEFINE From(j) == IF j < k THEN j ELSE j + 1
<1>6. \A j \in 1 .. n - 1 : /\ From(j) \in 1 .. n /\ From(j) # k
                            /\ requests'[j] = requests[From(j)]
  BY <1>2, <1>3, <1>4
<1>7. \A j, l \in 1 .. n - 1 : From(j) = From(l) => j = l
  BY <1>3
<1> HIDE DEF From, n, T
<1>8. \A other \in Breaker!PauseId \ {id} : pauses'[other] = pauses[other]
  BY <1>1
<1>9. pauses' \in [Breaker!PauseId -> T]
  BY <1>1 DEF T
<1>10. ASSUME NEW j \in DOMAIN requests'
       PROVE  pauses'[requests'[j].pause_id] # Breaker!NoPause
  <2>1. /\ From(j) \in DOMAIN requests /\ From(j) # k /\ requests'[j] = requests[From(j)]
    BY <1>3, <1>5, <1>6
  <2>2. requests[From(j)].pause_id # id
    BY <1>1, <1>2, <2>1
  <2>3. requests[From(j)].pause_id \in Breaker!PauseId
    BY <1>3, <2>1 DEF Request
  <2> QED
    BY <1>1, <1>8, <2>1, <2>2, <2>3
<1>11. ASSUME NEW j \in DOMAIN requests', NEW l \in DOMAIN requests',
              requests'[j].pause_id = requests'[l].pause_id
       PROVE  j = l
  <2>1. From(j) = From(l)
    BY <1>1, <1>3, <1>5, <1>6, <1>11
  <2> QED
    BY <1>5, <1>7, <2>1
<1>12. Breaker!RequestsLive'
  BY <1>10, <1>11 DEF Breaker!RequestsLive, Breaker!NoPause
<1>13. BreakerOpen'
  BY <1>1, <1>5, <1>9, <1>12 DEF T, BreakerInv, BreakerOpen, Request, Breaker!PauseId,
     Breaker!Scope, Breaker!NoPause
<1>14. BreakerAside'
  BY <1>1, AsideKept
<1> QED
  BY <1>1, <1>2, <1>3, <1>8, <1>13, <1>14 DEF BreakerInv

\* Every step keeps the invariant; a scope is lifted by a request with its approvals.
LEMMA NextBreaker ==
    ASSUME Breaker!BreakerConstants, BreakerInv, [Breaker!Next]_(Breaker!breakerVars)
    PROVE  /\ BreakerInv'
           /\ \A scope \in Breaker!Scope :
                 Breaker!IsPaused(scope) /\ ~Breaker!IsPaused(scope)' =>
                    \E k \in DOMAIN requests :
                       /\ pauses[requests[k].pause_id] \in {<<"Global">>, scope}
                       /\ requests[k].approvals >= Threshold
<1>1. CASE UNCHANGED Breaker!breakerVars
  <2>1. UNCHANGED <<guardians, pause_count, pauses, requests, listed_addresses, listed_assets>>
    BY <1>1 DEF Breaker!breakerVars
  <2>2. BreakerAside'
    BY <2>1, AsideKept
  <2>3. BreakerOpen'
    BY <2>1 DEF BreakerInv, BreakerOpen, Breaker!RequestsLive, Breaker!PauseId,
       Breaker!Scope, Breaker!NoPause, Request
  <2> QED
    BY <2>1, <2>2, <2>3 DEF BreakerInv, Breaker!IsPaused
<1>2. CASE Sideways
  <2>1. BreakerInv' /\ UNCHANGED <<pause_count, pauses, requests>>
    BY <1>2, SidewaysOpen
  <2> QED
    BY <2>1 DEF Breaker!IsPaused
<1>3. CASE \E a \in Address, scope \in Breaker!Scope : Breaker!Pause(a, scope)
  <2>1. /\ BreakerInv' /\ pause_count' = pause_count + 1
        /\ \A id \in 1 .. pause_count : pauses'[id] = pauses[id]
    BY <1>3, PauseKeeps
  <2>2. pause_count \in Nat
    BY DEF BreakerInv, BreakerOpen, Breaker!BreakerConstants
  <2>3. ASSUME NEW scope \in Breaker!Scope, Breaker!IsPaused(scope)
        PROVE  Breaker!IsPaused(scope)'
    <3>1. PICK id \in 1 .. pause_count : pauses[id] = <<"Global">> \/ pauses[id] = scope
      BY <2>3 DEF Breaker!IsPaused
    <3>2. id \in 1 .. pause_count' /\ pauses'[id] = pauses[id]
      BY <2>1, <2>2
    <3> QED
      BY <3>1, <3>2 DEF Breaker!IsPaused
  <2> QED
    BY <2>1, <2>3
<1>4. CASE \E a \in Address, id \in Breaker!PauseId :
              Breaker!RequestRecovery(a, id) \/ Breaker!ApproveRecovery(a, id)
  <2>1. BreakerInv' /\ UNCHANGED <<pause_count, pauses>>
    BY <1>4, RequestKeeps
  <2> QED
    BY <2>1 DEF Breaker!IsPaused
<1>5. CASE \E a \in Address, id \in Breaker!PauseId : Breaker!ExecuteRecovery(a, id)
  <2> PICK a \in Address, id \in Breaker!PauseId : Breaker!ExecuteRecovery(a, id)
    BY <1>5
  <2>1. /\ BreakerInv' /\ UNCHANGED pause_count
        /\ \A other \in Breaker!PauseId \ {id} : pauses'[other] = pauses[other]
        /\ \E k \in DOMAIN requests :
              requests[k].pause_id = id /\ requests[k].approvals >= Threshold
    BY LiftKeeps
  <2>2. pause_count \in 0 .. MaxPauses /\ Breaker!PauseId = 1 .. MaxPauses /\ MaxPauses \in Nat
    BY DEF BreakerInv, BreakerOpen, Breaker!BreakerConstants, Breaker!PauseId
  <2>3. ASSUME NEW scope \in Breaker!Scope,
               Breaker!IsPaused(scope), ~Breaker!IsPaused(scope)'
        PROVE  \E k \in DOMAIN requests :
                  /\ pauses[requests[k].pause_id] \in {<<"Global">>, scope}
                  /\ requests[k].approvals >= Threshold
    <3>1. PICK other \in 1 .. pause_count :
                pauses[other] = <<"Global">> \/ pauses[other] = scope
      BY <2>3 DEF Breaker!IsPaused
    <3>2. other \in Breaker!PauseId
      BY <2>2
    <3>3. other = id
      BY <2>1, <2>3, <3>1, <3>2 DEF Breaker!IsPaused
    <3> QED
      BY <2>1, <3>1, <3>3
  <2> QED
    BY <2>1, <2>3
<1>6. Breaker!Next => \/ Sideways
                      \/ \E a \in Address, scope \in Breaker!Scope : Breaker!Pause(a, scope)
                      \/ \E a \in Address, id \in Breaker!PauseId :
                            \/ Breaker!RequestRecovery(a, id) \/ Breaker!ApproveRecovery(a, id)
                            \/ Breaker!ExecuteRecovery(a, id)
  BY Zenon DEF Breaker!Next, Sideways
<1> QED
  BY <1>1, <1>2, <1>3, <1>4, <1>5, <1>6

\* The invariant holds of every behaviour.
LEMMA BreakerInvariant ==
    ASSUME Breaker!BreakerConstants
    PROVE  Breaker!Spec => []BreakerInv
<1>1. Breaker!Init => BreakerInv
  BY InitBreaker
<1>2. BreakerInv /\ [Breaker!Next]_(Breaker!breakerVars) => BreakerInv'
  BY NextBreaker
<1> QED
  BY <1>1, <1>2, PTL DEF Breaker!Spec

\* The requests are of pauses in force, one for each at most: none outlives its pause to
\* lift another one.
THEOREM RequestsStayLive ==
    ASSUME Breaker!BreakerConstants
    PROVE  Breaker!Spec => [](Breaker!TypeOK /\ Breaker!RequestsLive)
<1>1. BreakerInv => Breaker!TypeOK /\ Breaker!RequestsLive
  BY BreakerChecked
<1> QED
  BY <1>1, BreakerInvariant, PTL

\* A scope stays paused until as many approvals as the threshold were counted for a pause
\* that covers it.
THEOREM LiftedWithApprovals ==
    ASSUME Breaker!BreakerConstants
    PROVE  Breaker!Spec => Breaker!LiftedByApproval
<1> DEFINE A == \A scope \in Breaker!Scope :
                   Breaker!IsPaused(scope) /\ ~Breaker!IsPaused(scope)' =>
                      \E k \in DOMAIN requests :
                         /\ pauses[requests[k].pause_id] \in {<<"Global">>, scope}
                         /\ requests[k].approvals >= Threshold
<1>1. BreakerInv /\ [Breaker!Next]_(Breaker!breakerVars) => [A]_(Breaker!breakerVars)
  BY NextBreaker
<1> QED
  BY <1>1, BreakerInvariant, PTL DEF Breaker!Spec, Breaker!LiftedByApproval

-----------------------------------------------------------------------------
(***************************************************************************)
(* Bridge reserve verifier.                                                *)
(***************************************************************************)

CommitmentStatus == {"Pending", "Verified", "Challenged", "Slashed", "Resolved"}
Commitment ==
    [merkle_root : {Verifier!RootOf(tree) : tree \in Tree}, committed_ledger : Nat,
     status : CommitmentStatus]

\* The commitments of b found wrong.
FoundWrong(b) == {n \in DOMAIN commitments[b] : commitments[b][n].status = "Slashed"}

\* What holds of the operator of b.
OperatorSound(b) ==
    IF Verifier!Registered(b)
    THEN /\ operators[b].stake \in Int
         /\ operators[b].slash_count > 0 => operators[b].stake >= 0
         /\ operators[b].slash_count \in Nat
         /\ operators[b].slash_count = direct_slashes[b] + Cardinality(FoundWrong(b))
    ELSE commitments[b] = <<>> /\ direct_slashes[b] = 0

\* The inductive invariant.
VerifierInv ==
    /\ now \in 0 .. MaxNow
    /\ settings \in Verifier!Settings
    /\ operators = [b \in Bridge |-> operators[b]]
    /\ commitments \in [Bridge -> Seq(Commitment)]
    /\ direct_slashes \in [Bridge -> Nat]
    /\ \A b \in Bridge : OperatorSound(b)

\* The verifier counts as the library does.
LEMMA VerifierCounts ==
    \A S : Verifier!Cardinality(S) = Cardinality(S)
BY DEF Verifier!Cardinality, Cardinality

\* A commitment is a commitment, and the ones found wrong are finitely many.
LEMMA CommitmentRead ==
    ASSUME VerifierInv, NEW b \in Bridge
    PROVE  /\ commitments[b] \in Seq(Commitment)
           /\ \A n \in DOMAIN commitments[b] : commitments[b][n] \in Commitment
           /\ IsFiniteSet(FoundWrong(b)) /\ Cardinality(FoundWrong(b)) \in Nat
<1>1. commitments[b] \in Seq(Commitment)
  BY DEF VerifierInv
<1>2. \A n \in DOMAIN commitments[b] : commitments[b][n] \in Commitment
  BY <1>1
<1>3. Len(commitments[b]) \in Nat /\ DOMAIN commitments[b] = 1 .. Len(commitments[b])
  BY <1>1
<1>4. IsFiniteSet(1 .. Len(commitments[b]))
  <2>1. \A k \in Nat : IsFiniteSet(1 .. k)
    BY FS_Interval
  <2> QED
    BY <1>3, <2>1
<1>5. FoundWrong(b) \subseteq 1 .. Len(commitments[b])
  BY <1>3 DEF FoundWrong
<1>6. IsFiniteSet(FoundWrong(b))
  BY <1>4, <1>5, FS_Subset
<1> QED
  BY <1>1, <1>2, <1>6, FS_CardinalityType

\* The invariant says what is checked of the verifier.
LEMMA VerifierChecked ==
    ASSUME VerifierInv
    PROVE  Verifier!TypeOK /\ Verifier!SlashesCounted
<1>1. Verifier!SlashesCounted
  BY VerifierCounts DEF VerifierInv, OperatorSound, FoundWrong, Verifier!SlashesCounted
<1>2. ASSUME NEW b \in Bridge, NEW n \in DOMAIN commitments[b]
      PROVE  commitments[b][n].status \in CommitmentStatus
  BY CommitmentRead DEF Commitment
<1>3. Verifier!TypeOK
  BY <1>2 DEF VerifierInv, OperatorSound, CommitmentStatus, Verifier!TypeOK
<1> QED
  BY <1>1, <1>3

\* It holds at first.
LEMMA InitVerifier ==
    ASSUME Verifier!VerifierConstants, Verifier!Init
    PROVE  VerifierInv
<1>1. /\ now \in 0 .. MaxNow /\ settings \in Verifier!Settings
      /\ commitments \in [Bridge -> Seq(Commitment)] /\ direct_slashes \in [Bridge -> Nat]
      /\ operators = [b \in Bridge |-> operators[b]]
  BY DEF Verifier!VerifierConstants, Verifier!Init
<1>2. \A b \in Bridge : OperatorSound(b)
  BY DEF OperatorSound, Verifier!Init, Verifier!Registered
<1> QED
  BY <1>1, <1>2 DEF VerifierInv

\* A bridge no call touched.
LEMMA OperatorKept ==
    ASSUME VerifierInv, NEW b \in Bridge, operators'[b] = operators[b],
           commitments'[b] = commitments[b], direct_slashes'[b] = direct_slashes[b]
    PROVE  OperatorSound(b)'
BY DEF VerifierInv, OperatorSound, FoundWrong, Verifier!Registered, Verifier!NoOperator

\* A commitment on record is of a registered bridge.
LEMMA CommitterRegistered ==
    ASSUME VerifierInv, NEW b \in Bridge, NEW n \in DOMAIN commitments[b]
    PROVE  Verifier!Registered(b)
BY DEF VerifierInv, OperatorSound

\* The status of one commitment changes.
LEMMA StatusChanged ==
    ASSUME VerifierInv, NEW b \in Bridge, NEW n \in DOMAIN commitments[b],
           NEW s \in CommitmentStatus,
           commitments' = [commitments EXCEPT ![b][n].status = s]
    PROVE  /\ commitments' \in [Bridge -> Seq(Commitment)]
           /\ \A other \in Bridge \ {b} : commitments'[other] = commitments[other]
           /\ FoundWrong(b)' = IF s = "Slashed" THEN FoundWrong(b) \cup {n}
                                                ELSE FoundWrong(b) \ {n}
<1> DEFINE old == commitments[b]
           c == [old[n] EXCEPT !.status = s]
           new == [old EXCEPT ![n] = c]
<1>1. /\ old \in Seq(Commitment) /\ old[n] \in Commitment
      /\ commitments \in [Bridge -> Seq(Commitment)]
  BY CommitmentRead DEF VerifierInv
<1>2. c \in Commitment /\ c.status = s
  BY <1>1 DEF Commitment
<1>3. commitments' = [commitments EXCEPT ![b] = new]
  OBVIOUS
<1> HIDE DEF c
<1>4. /\ new \in Seq(Commitment) /\ DOMAIN new = DOMAIN old /\ new[n] = c
      /\ \A k \in DOMAIN old \ {n} : new[k] = old[k]
  BY <1>1, <1>2
<1> HIDE DEF new
<1>5. /\ commitments' \in [Bridge -> Seq(Commitment)] /\ commitments'[b] = new
      /\ \A other \in Bridge \ {b} : commitments'[other] = commitments[other]
  BY <1>1, <1>3, <1>4
<1>6. FoundWrong(b)' = {k \in DOMAIN old : new[k].status = "Slashed"}
  BY <1>4, <1>5 DEF FoundWrong
<1>7. FoundWrong(b) = {k \in DOMAIN old : old[k].status = "Slashed"}
  BY DEF FoundWrong
<1>8. CASE s = "Slashed"
  BY <1>2, <1>4, <1>5, <1>6, <1>7, <1>8
<1>9. CASE s # "Slashed"
  BY <1>2, <1>4, <1>5, <1>6, <1>7, <1>9
<1> QED
  BY <1>5, <1>8, <1>9

\* Slashing leaves a stake that is not negative, and counts.
LEMMA SlashedOperator ==
    ASSUME Verifier!VerifierConstants, VerifierInv, NEW b \in Bridge, Verifier!Registered(b)
    PROVE  LET op == Verifier!Slashed(operators[b])
           IN  /\ op.stake \in Nat
               /\ op.slash_count = operators[b].slash_count + 1
               /\ op.slash_count \in Nat /\ op # Verifier!NoOperator
<1> DEFINE op == Verifier!Slashed(operators[b])
           remains == IF operators[b].stake >= settings.slash_amount
                      THEN operators[b].stake - settings.slash_amount ELSE 0
<1>1. operators[b].stake \in Int /\ operators[b].slash_count \in Nat
  BY DEF VerifierInv, OperatorSound
<1>3. settings.slash_amount \in Int
  BY DEF VerifierInv, Verifier!Settings, Verifier!VerifierConstants
<1>4. remains \in Nat
  BY <1>1, <1>3
<1>5. op.stake = remains /\ op.slash_count = operators[b].slash_count + 1
  BY DEF Verifier!Slashed
<1>6. op.slash_count \in Nat
  BY <1>1, <1>5
<1>7. op # Verifier!NoOperator
  <2>1. Verifier!NoOperator.slash_count = -1
    BY DEF Verifier!NoOperator
  <2>2. ASSUME op = Verifier!NoOperator
        PROVE  FALSE
    BY <1>6, <2>1, <2>2
  <2> QED
    BY <2>2
<1> HIDE DEF op, remains
<1>8. op.stake \in Nat
  BY <1>4, <1>5
<1> QED
  BY <1>5, <1>6, <1>7, <1>8 DEF op

\* The calls on settings and registrations, and a commitment.
LEMMA CommitKeeps ==
    ASSUME Verifier!VerifierConstants, VerifierInv, NEW b \in Bridge,
           \/ \E put \in Stakes : Verifier!RegisterBridge(b, put)
           \/ \E tree \in Tree : Verifier!CommitReserves(b, tree)
    PROVE  VerifierInv'
<1>1. /\ UNCHANGED <<now, settings, direct_slashes>>
      /\ operators = [x \in Bridge |-> operators[x]]
      /\ commitments \in [Bridge -> Seq(Commitment)] /\ direct_slashes \in [Bridge -> Nat]
      /\ now \in 0 .. MaxNow /\ MaxNow \in Nat /\ settings \in Verifier!Settings
  BY DEF VerifierInv, Verifier!RegisterBridge, Verifier!CommitReserves, Verifier!VerifierConstants
<1>2. /\ operators' = [x \in Bridge |-> operators'[x]]
      /\ commitments' \in [Bridge -> Seq(Commitment)]
      /\ \A other \in Bridge \ {b} : /\ operators'[other] = operators[other]
                                     /\ commitments'[other] = commitments[other]
      /\ OperatorSound(b)'
  <2>1. CASE \E put \in Stakes : Verifier!RegisterBridge(b, put)
    <3> PICK put \in Stakes : Verifier!RegisterBridge(b, put)
      BY <2>1
    <3> DEFINE op == [stake |-> put, is_active |-> TRUE, slash_count |-> 0]
    <3>1. /\ ~Verifier!Registered(b) /\ operators' = [operators EXCEPT ![b] = op]
          /\ commitments' = [commitments EXCEPT ![b] = <<>>]
      BY DEF Verifier!RegisterBridge
    <3>2. put \in Int
      BY DEF Verifier!VerifierConstants
    <3>3. op.stake = put /\ op.slash_count = 0 /\ op # Verifier!NoOperator
      BY DEF Verifier!NoOperator
    <3> HIDE DEF op
    <3>4. /\ operators'[b] = op /\ commitments'[b] = <<>>
          /\ operators' = [x \in Bridge |-> operators'[x]]
          /\ \A other \in Bridge \ {b} : /\ operators'[other] = operators[other]
                                         /\ commitments'[other] = commitments[other]
      BY <1>1, <3>1
    <3>5. commitments' \in [Bridge -> Seq(Commitment)]
      BY <1>1, <3>1
    <3>6. direct_slashes'[b] = 0
      BY <1>1, <3>1 DEF VerifierInv, OperatorSound
    <3>7. FoundWrong(b)' = {}
      BY <3>4 DEF FoundWrong
    <3>8. Cardinality({}) = 0
      BY FS_EmptySet
    <3>9. Verifier!Registered(b)'
      BY <3>3, <3>4 DEF Verifier!Registered, Verifier!NoOperator
    <3>10. OperatorSound(b)'
      <4>1. operators'[b].stake \in Int
        BY <3>2, <3>3, <3>4
      <4>2. operators'[b].slash_count = 0
        BY <3>3, <3>4
      <4>3. Cardinality(FoundWrong(b)') = 0
        BY <3>7, <3>8
      <4> QED
        BY <3>6, <3>9, <4>1, <4>2, <4>3 DEF OperatorSound
    <3> QED
      BY <3>4, <3>5, <3>10
  <2>2. CASE \E tree \in Tree : Verifier!CommitReserves(b, tree)
    <3> PICK tree \in Tree : Verifier!CommitReserves(b, tree)
      BY <2>2
    <3> DEFINE c == [merkle_root |-> Verifier!RootOf(tree), committed_ledger |-> now,
                     status |-> "Pending"]
               old == commitments[b]
    <3>1. /\ Verifier!Registered(b) /\ UNCHANGED operators
          /\ commitments' = [commitments EXCEPT ![b] = Append(old, c)]
      BY DEF Verifier!CommitReserves
    <3>2. c \in Commitment /\ c.status = "Pending"
      BY <1>1 DEF Commitment, CommitmentStatus
    <3> HIDE DEF c
    <3>3. old \in Seq(Commitment) /\ Append(old, c) \in Seq(Commitment)
      BY <1>1, <3>2
    <3>4. /\ commitments' \in [Bridge -> Seq(Commitment)]
          /\ commitments'[b] = Append(old, c)
          /\ \A other \in Bridge \ {b} : commitments'[other] = commitments[other]
      BY <1>1, <3>1, <3>3
    <3>5. FoundWrong(b)' = FoundWrong(b)
      <4>1. /\ DOMAIN Append(old, c) = 1 .. Len(old) + 1 /\ Len(old) \in Nat
            /\ DOMAIN old = 1 .. Len(old)
            /\ \A k \in 1 .. Len(old) : Append(old, c)[k] = old[k]
            /\ Append(old, c)[Len(old) + 1] = c
        BY <3>3
      <4>2. \A k \in 1 .. Len(old) + 1 : k \in 1 .. Len(old) \/ k = Len(old) + 1
        BY <4>1
      <4>3. \A k \in 1 .. Len(old) : k \in 1 .. Len(old) + 1
        BY <4>1
      <4> QED
        BY <3>2, <3>4, <4>1, <4>2, <4>3 DEF FoundWrong
    <3>6. OperatorSound(b)'
      BY <1>1, <3>1, <3>5 DEF VerifierInv, OperatorSound, Verifier!Registered,
         Verifier!NoOperator
    <3> QED
      BY <1>1, <3>1, <3>4, <3>6
  <2> QED
    BY <2>1, <2>2
<1>3. \A other \in Bridge \ {b} : OperatorSound(other)'
  BY <1>1, <1>2, OperatorKept
<1>4. \A other \in Bridge : OperatorSound(other)'
  BY <1>2, <1>3
<1> QED
  BY <1>1, <1>2, <1>4 DEF VerifierInv, Verifier!Settings, Commitment, CommitmentStatus,
     Verifier!RootOf, Verifier!Node, Verifier!LeafHash

\* The calls that move a commitment or slash an operator.
LEMMA JudgeKeeps ==
    ASSUME Verifier!VerifierConstants, VerifierInv, NEW b \in Bridge,
           \/ \E n \in DOMAIN commitments[b] :
                 \/ Verifier!VerifyProof(b, n) \/ Verifier!ChallengeCommitment(b, n)
                 \/ \E valid \in BOOLEAN : Verifier!ResolveChallenge(b, n, valid)
           \/ Verifier!SlashOperator(b)
    PROVE  VerifierInv'
<1>1. /\ UNCHANGED <<now, settings>>
      /\ operators = [x \in Bridge |-> operators[x]]
      /\ commitments \in [Bridge -> Seq(Commitment)] /\ direct_slashes \in [Bridge -> Nat]
      /\ now \in 0 .. MaxNow /\ settings \in Verifier!Settings
  BY DEF VerifierInv, Verifier!VerifyProof, Verifier!ChallengeCommitment,
     Verifier!ResolveChallenge, Verifier!SlashOperator
<1>2. /\ IsFiniteSet(FoundWrong(b)) /\ Cardinality(FoundWrong(b)) \in Nat
      /\ direct_slashes[b] \in Nat
  BY <1>1, CommitmentRead
<1>3. Verifier!Registered(b)
  BY CommitterRegistered DEF Verifier!SlashOperator
<1>4. /\ operators[b].stake \in Int /\ operators[b].slash_count \in Nat
      /\ operators[b].slash_count > 0 => operators[b].stake >= 0
      /\ operators[b].slash_count = direct_slashes[b] + Cardinality(FoundWrong(b))
  BY <1>3 DEF VerifierInv, OperatorSound
<1> DEFINE op == Verifier!Slashed(operators[b])
<1>5. /\ op.stake \in Nat
      /\ op.slash_count = operators[b].slash_count + 1
      /\ op.slash_count \in Nat /\ op # Verifier!NoOperator
  BY <1>3, SlashedOperator
<1> HIDE DEF op
<1>6. /\ operators' = [x \in Bridge |-> operators'[x]]
      /\ commitments' \in [Bridge -> Seq(Commitment)]
      /\ direct_slashes' \in [Bridge -> Nat]
      /\ \A other \in Bridge \ {b} : /\ operators'[other] = operators[other]
                                     /\ commitments'[other] = commitments[other]
                                     /\ direct_slashes'[other] = direct_slashes[other]
      /\ \/ /\ operators'[b] = operators[b]
            /\ FoundWrong(b)' = FoundWrong(b) /\ direct_slashes'[b] = direct_slashes[b]
         \/ /\ operators'[b] = op
            /\ Cardinality(FoundWrong(b)') + direct_slashes'[b] =
                  Cardinality(FoundWrong(b)) + direct_slashes[b] + 1
  <2>1. CASE \E n \in DOMAIN commitments[b] :
                \/ Verifier!VerifyProof(b, n) \/ Verifier!ChallengeCommitment(b, n)
                \/ \E valid \in BOOLEAN : Verifier!ResolveChallenge(b, n, valid)
    <3> PICK n \in DOMAIN commitments[b] :
                \/ Verifier!VerifyProof(b, n) \/ Verifier!ChallengeCommitment(b, n)
                \/ \E valid \in BOOLEAN : Verifier!ResolveChallenge(b, n, valid)
      BY <2>1
    <3>1. UNCHANGED direct_slashes
      BY DEF Verifier!VerifyProof, Verifier!ChallengeCommitment, Verifier!ResolveChallenge
    <3>2. n \notin FoundWrong(b)
      BY DEF FoundWrong, Verifier!VerifyProof, Verifier!ChallengeCommitment,
         Verifier!ResolveChallenge
    <3>3. PICK s \in CommitmentStatus :
              /\ commitments' = [commitments EXCEPT ![b][n].status = s]
              /\ IF s = "Slashed" THEN operators' = [operators EXCEPT ![b] = op]
                                  ELSE UNCHANGED operators
      <4>1. CASE Verifier!VerifyProof(b, n)
        BY <4>1 DEF Verifier!VerifyProof, CommitmentStatus
      <4>2. CASE Verifier!ChallengeCommitment(b, n)
        BY <4>2 DEF Verifier!ChallengeCommitment, CommitmentStatus
      <4>3. CASE \E valid \in BOOLEAN : Verifier!ResolveChallenge(b, n, valid)
        <5> PICK valid \in BOOLEAN : Verifier!ResolveChallenge(b, n, valid)
          BY <4>3
        <5>1. CASE valid = TRUE
          BY <5>1 DEF Verifier!ResolveChallenge, CommitmentStatus
        <5>2. CASE valid = FALSE
          BY <5>2 DEF Verifier!ResolveChallenge, CommitmentStatus, op
        <5> QED
          BY <5>1, <5>2
      <4> QED
        BY <4>1, <4>2, <4>3
    <3>4. /\ commitments' \in [Bridge -> Seq(Commitment)]
          /\ \A other \in Bridge \ {b} : commitments'[other] = commitments[other]
          /\ FoundWrong(b)' = IF s = "Slashed" THEN FoundWrong(b) \cup {n}
                                               ELSE FoundWrong(b) \ {n}
      BY <3>3, StatusChanged
    <3>5. CASE s = "Slashed"
      <4>1. Cardinality(FoundWrong(b) \cup {n}) = Cardinality(FoundWrong(b)) + 1
        BY <1>2, <3>2, FS_AddElement
      <4>2. /\ operators' = [operators EXCEPT ![b] = op]
            /\ FoundWrong(b)' = FoundWrong(b) \cup {n}
        BY <3>3, <3>4, <3>5
      <4>3. /\ operators' = [x \in Bridge |-> operators'[x]] /\ operators'[b] = op
            /\ \A other \in Bridge \ {b} : operators'[other] = operators[other]
        BY <1>1, <4>2
      <4>4. Cardinality(FoundWrong(b)') + direct_slashes'[b] =
               Cardinality(FoundWrong(b)) + direct_slashes[b] + 1
        BY <1>2, <3>1, <4>1, <4>2
      <4> QED
        BY <1>1, <3>1, <3>4, <4>3, <4>4
    <3>6. CASE s # "Slashed"
      <4>1. UNCHANGED operators /\ FoundWrong(b)' = FoundWrong(b)
        BY <3>2, <3>3, <3>4, <3>6
      <4> QED
        BY <1>1, <3>1, <3>4, <4>1
    <3> QED
      BY <3>5, <3>6
  <2>2. CASE Verifier!SlashOperator(b)
    <3>1. /\ operators' = [operators EXCEPT ![b] = op]
          /\ direct_slashes' = [direct_slashes EXCEPT ![b] = @ + 1]
          /\ UNCHANGED commitments
      BY <2>2 DEF Verifier!SlashOperator, op
    <3>2. FoundWrong(b)' = FoundWrong(b)
      BY <3>1 DEF FoundWrong
    <3>3. /\ direct_slashes'[b] = direct_slashes[b] + 1
          /\ direct_slashes' \in [Bridge -> Nat]
          /\ \A other \in Bridge \ {b} : direct_slashes'[other] = direct_slashes[other]
      BY <1>1, <1>2, <3>1
    <3>4. /\ operators' = [x \in Bridge |-> operators'[x]] /\ operators'[b] = op
          /\ \A other \in Bridge \ {b} : operators'[other] = operators[other]
      BY <1>1, <3>1
    <3>5. Cardinality(FoundWrong(b)') + direct_slashes'[b] =
               Cardinality(FoundWrong(b)) + direct_slashes[b] + 1
      BY <1>2, <3>2, <3>3
    <3> QED
      BY <1>1, <3>1, <3>3, <3>4, <3>5
  <2> QED
    BY <2>1, <2>2
<1>7. OperatorSound(b)'
  <2>1. CASE /\ operators'[b] = operators[b]
             /\ FoundWrong(b)' = FoundWrong(b) /\ direct_slashes'[b] = direct_slashes[b]
    BY <1>3, <1>4, <2>1 DEF OperatorSound, Verifier!Registered, Verifier!NoOperator
  <2>2. CASE /\ operators'[b] = op
             /\ Cardinality(FoundWrong(b)') + direct_slashes'[b] =
                   Cardinality(FoundWrong(b)) + direct_slashes[b] + 1
    <3>1. Verifier!Registered(b)'
      BY <1>5, <2>2 DEF Verifier!Registered, Verifier!NoOperator
    <3>2. direct_slashes'[b] \in Nat
      BY <1>6
    <3>3. Cardinality(FoundWrong(b)') \in Int
      <4>1. FoundWrong(b)' \subseteq 1 .. Len(commitments'[b]) /\ Len(commitments'[b]) \in Nat
        BY <1>6 DEF FoundWrong
      <4>2. \A k \in Nat : IsFiniteSet(1 .. k)
        BY FS_Interval
      <4>3. IsFiniteSet(FoundWrong(b)')
        BY <4>1, <4>2, FS_Subset
      <4> QED
        BY <4>3, FS_CardinalityType
    <3>4. operators'[b].slash_count = direct_slashes'[b] + Cardinality(FoundWrong(b)')
      BY <1>2, <1>4, <1>5, <2>2, <3>2, <3>3
    <3>5. operators'[b].stake \in Nat /\ operators'[b].slash_count \in Nat
      BY <1>5, <2>2
    <3> QED
      BY <3>1, <3>4, <3>5 DEF OperatorSound
  <2> QED
    BY <1>6, <2>1, <2>2
<1>8. \A other \in Bridge \ {b} : OperatorSound(other)'
  BY <1>6, OperatorKept
<1>9. \A other \in Bridge : OperatorSound(other)'
  BY <1>7, <1>8
<1> QED
  BY <1>1, <1>6, <1>9 DEF VerifierInv, Verifier!Settings, Commitment, CommitmentStatus,
     Verifier!RootOf, Verifier!Node, Verifier!LeafHash

\* Every step keeps the invariant.
LEMMA NextVerifier ==
    ASSUME Verifier!VerifierConstants, VerifierInv, [Verifier!Next]_(Verifier!vars)
    PROVE  VerifierInv'
<1>1. CASE \/ Verifier!Tick \/ UNCHANGED Verifier!vars
           \/ \E new \in Verifier!Settings : Verifier!UpdateConfig(new)
  <2>1. /\ UNCHANGED <<operators, commitments, direct_slashes>>
        /\ now' \in 0 .. MaxNow /\ settings' \in Verifier!Settings
    BY <1>1 DEF Verifier!Tick, Verifier!vars, Verifier!verifierVars, Verifier!UpdateConfig,
       VerifierInv, Verifier!VerifierConstants
  <2>2. \A b \in Bridge : OperatorSound(b)'
    BY <2>1, OperatorKept
  <2> QED
    BY <2>1, <2>2 DEF VerifierInv, Verifier!Settings, Commitment, CommitmentStatus,
       Verifier!RootOf, Verifier!Node, Verifier!LeafHash
<1>2. CASE \E b \in Bridge : \/ \E put \in Stakes : Verifier!RegisterBridge(b, put)
                             \/ \E tree \in Tree : Verifier!CommitReserves(b, tree)
  BY <1>2, CommitKeeps
<1>3. CASE \E b \in Bridge :
              \/ \E n \in DOMAIN commitments[b] :
                    \/ Verifier!VerifyProof(b, n) \/ Verifier!ChallengeCommitment(b, n)
                    \/ \E valid \in BOOLEAN : Verifier!ResolveChallenge(b, n, valid)
              \/ Verifier!SlashOperator(b)
  BY <1>3, JudgeKeeps
<1> QED
  BY <1>1, <1>2, <1>3 DEF Verifier!Next

\* The invariant holds of every behaviour.
LEMMA VerifierInvariant ==
    ASSUME Verifier!VerifierConstants
    PROVE  Verifier!Spec => []VerifierInv
<1>1. Verifier!Init => VerifierInv
  BY InitVerifier
<1>2. VerifierInv /\ [Verifier!Next]_(Verifier!vars) => VerifierInv'
  BY NextVerifier
<1> QED
  BY <1>1, <1>2, PTL DEF Verifier!Spec

\* An operator is slashed once for each commitment found wrong and once for each direct
\* slash, however challenges, resolutions and changes of the settings interleave.
THEOREM SlashedOnceEach ==
    ASSUME Verifier!VerifierConstants
    PROVE  Verifier!Spec => [](Verifier!TypeOK /\ Verifier!SlashesCounted)
<1>1. VerifierInv => Verifier!TypeOK /\ Verifier!SlashesCounted
  BY VerifierChecked
<1> QED
  BY <1>1, VerifierInvariant, PTL

\* The table in which the climb along a path looks up where it is.
Climb(at, path) ==
    CHOOSE t : t = [s \in SUBSET DOMAIN path |->
                       IF s = {} THEN at
                       ELSE Verifier!Climbed(t[s \ {Verifier!Max(s)}], path[Verifier!Max(s)])]

\* The root that is computed is where the climb ends.
LEMMA RootClimbed ==
    ASSUME NEW proof
    PROVE  Verifier!ComputedRoot(proof) =
              Climb([hash |-> proof.leaf_hash, index |-> proof.leaf_index],
                    proof.proof_path)[DOMAIN proof.proof_path].hash
BY DEF Verifier!ComputedRoot, Verifier!FoldLeft, Verifier!MapThenFoldSet, Climb

\* The largest of one and two, or of one of them.
LEMMA LargestOfTwo ==
    /\ Verifier!Max({1}) = 1 /\ Verifier!Max({2}) = 2 /\ Verifier!Max({1, 2}) = 2
<1>1. /\ 1 \in {1} /\ (\A y \in {1} : 1 >= y) /\ \A x \in {1} : x = 1
      /\ 2 \in {2} /\ (\A y \in {2} : 2 >= y) /\ \A x \in {2} : x = 2
  OBVIOUS
<1>2. /\ 2 \in {1, 2} /\ \A y \in {1, 2} : 2 >= y
      /\ \A x \in {1, 2} : (\A y \in {1, 2} : x >= y) => x = 2
  OBVIOUS
<1> QED
  BY <1>1, <1>2 DEF Verifier!Max

\* A climb along two siblings takes the first and then the second.
LEMMA ClimbOfTwo ==
    ASSUME NEW at, NEW path, DOMAIN path = 1 .. 2
    PROVE  Climb(at, path)[DOMAIN path] =
              Verifier!Climbed(Verifier!Climbed(at, path[1]), path[2])
<1> DEFINE Up(t, s) == IF s = {} THEN at
                       ELSE Verifier!Climbed(t[s \ {Verifier!Max(s)}], path[Verifier!Max(s)])
           first == Verifier!Climbed(at, path[1])
           second == Verifier!Climbed(at, path[2])
           both == Verifier!Climbed(first, path[2])
           g == [s \in SUBSET DOMAIN path |->
                    IF s = {} THEN at ELSE IF s = {1} THEN first
                    ELSE IF s = {2} THEN second ELSE both]
<1>1. 1 .. 2 = {1, 2}
  OBVIOUS
<1>2. SUBSET DOMAIN path = {{}, {1}, {2}, {1, 2}}
  BY <1>1
<1>3. /\ {1} \ {1} = {} /\ {2} \ {2} = {} /\ {1, 2} \ {2} = {1}
      /\ {1} # {} /\ {2} # {} /\ {1} # {2} /\ {1, 2} # {} /\ {1, 2} # {1} /\ {1, 2} # {2}
  OBVIOUS
<1>4. g[{}] = at /\ g[{1}] = first /\ g[{2}] = second /\ g[{1, 2}] = both
  <2> HIDE DEF first, second, both
  <2>1. \A s \in SUBSET DOMAIN path :
            g[s] = IF s = {} THEN at ELSE IF s = {1} THEN first
                   ELSE IF s = {2} THEN second ELSE both
    OBVIOUS
  <2> HIDE DEF g
  <2> QED
    BY <1>2, <1>3, <2>1
<1>5. Up(g, {}) = at /\ Up(g, {1}) = first /\ Up(g, {2}) = second /\ Up(g, {1, 2}) = both
  <2> HIDE DEF g
  <2> QED
    BY <1>3, <1>4, LargestOfTwo
<1>6. g = [s \in SUBSET DOMAIN path |-> Up(g, s)]
  <2>1. g = [s \in SUBSET DOMAIN path |-> g[s]]
    OBVIOUS
  <2> HIDE DEF g, first, second, both, Up
  <2>2. \A s \in SUBSET DOMAIN path : g[s] = Up(g, s)
    BY <1>2, <1>4, <1>5
  <2> QED
    BY <2>1, <2>2
<1> DEFINE c == Climb(at, path)
<1>7. c = [s \in SUBSET DOMAIN path |-> Up(c, s)]
  <2> HIDE DEF g
  <2> QED
    BY <1>6 DEF Climb
<1> HIDE DEF c, g
<1>8. c[{}] = at /\ c[{1}] = Up(c, {1}) /\ c[{1, 2}] = Up(c, {1, 2})
  <2>1. c[{}] = Up(c, {}) /\ c[{1}] = Up(c, {1}) /\ c[{1, 2}] = Up(c, {1, 2})
    <3> HIDE DEF Up
    <3> QED
      BY <1>2, <1>7
  <2> QED
    BY <2>1
<1>9. c[{1}] = first /\ c[{1, 2}] = Verifier!Climbed(c[{1}], path[2])
  BY <1>3, <1>8, LargestOfTwo
<1> QED
  BY <1>1, <1>9 DEF c

\* Equal pairs have equal parts.
LEMMA PairEqual ==
    ASSUME NEW a, NEW b, NEW c, NEW d, <<a, b>> = <<c, d>>
    PROVE  a = c /\ b = d
OBVIOUS

\* A proof of two siblings that verifies against the root of a tree names the leaf at its
\* index, of which two bits count.
LEMMA LeafNamed ==
    ASSUME NEW tree, NEW proof, DOMAIN proof.proof_path = 1 .. 2, proof.leaf_index \in Nat,
           Verifier!Verifies(proof, Verifier!RootOf(tree))
    PROVE  proof.leaf_hash = Verifier!LeafHash(tree[(proof.leaf_index % 4) + 1])
<1> DEFINE i == proof.leaf_index
           h == proof.leaf_hash
           p == proof.proof_path
           at == [hash |-> h, index |-> i]
           one == Verifier!Climbed(at, p[1])
           two == Verifier!Climbed(one, p[2])
<1>1. two.hash = Verifier!RootOf(tree)
  BY RootClimbed, ClimbOfTwo DEF Verifier!Verifies
<1>2. /\ one.hash = (IF i % 2 = 0 THEN <<h, p[1]>> ELSE <<p[1], h>>)
      /\ one.index = i \div 2
  BY DEF Verifier!Climbed, Verifier!Node
<1>3. two.hash = IF (i \div 2) % 2 = 0 THEN <<one.hash, p[2]>> ELSE <<p[2], one.hash>>
  <2> HIDE DEF one
  <2> QED
    BY <1>2 DEF Verifier!Climbed, Verifier!Node
<1>4. i % 4 = 2 * ((i \div 2) % 2) + (i % 2) /\ i % 2 \in {0, 1} /\ (i \div 2) % 2 \in {0, 1}
  OBVIOUS
<1> DEFINE L(k) == Verifier!LeafHash(tree[k])
           left == <<L(1), L(2)>>
           right == <<L(3), L(4)>>
<1>5. Verifier!RootOf(tree) = <<left, right>>
  BY DEF Verifier!RootOf, Verifier!Node
<1> HIDE DEF one, two, h, i, p, L, left, right
<1>6. CASE (i \div 2) % 2 = 0
  <2>1. one.hash = <<L(1), L(2)>>
    <3>1. one.hash = left
      <4>1. <<one.hash, p[2]>> = <<left, right>>
        BY <1>1, <1>3, <1>5, <1>6
      <4> QED
        BY ONLY <4>1, PairEqual
    <3> QED
      BY <3>1 DEF left
  <2>2. CASE i % 2 = 0
    <3>1. h = L(1) /\ i % 4 = 0
      BY <1>2, <1>4, <1>6, <2>1, <2>2
    <3> QED
      BY <3>1 DEF L, h, i
  <2>3. CASE i % 2 # 0
    <3>1. h = L(2) /\ i % 4 = 1
      BY <1>2, <1>4, <1>6, <2>1, <2>3
    <3> QED
      BY <3>1 DEF L, h, i
  <2> QED
    BY <2>2, <2>3
<1>7. CASE (i \div 2) % 2 # 0
  <2>1. one.hash = <<L(3), L(4)>>
    <3>1. one.hash = right
      <4>1. <<p[2], one.hash>> = <<left, right>>
        BY <1>1, <1>3, <1>5, <1>7
      <4> QED
        BY ONLY <4>1, PairEqual
    <3> QED
      BY <3>1 DEF right
  <2>2. CASE i % 2 = 0
    <3>1. h = L(3) /\ i % 4 = 2
      BY <1>2, <1>4, <1>7, <2>1, <2>2
    <3> QED
      BY <3>1 DEF L, h, i
  <2>3. CASE i % 2 # 0
    <3>1. h = L(4) /\ i % 4 = 3
      BY <1>2, <1>4, <1>7, <2>1, <2>3
    <3> QED
      BY <3>1 DEF L, h, i
  <2> QED
    BY <2>2, <2>3
<1> QED
  BY <1>6, <1>7

\* A proof that verifies against a committed root names the leaf at its position, for
\* every tree committed and every proof of its depth that can be presented.
THEOREM ProofsAreSound == Verifier!Spec => []Verifier!ProofSound
<1>1. Verifier!ProofSound
  <2> SUFFICES ASSUME NEW tree \in Tree, NEW proof \in Verifier!MerkleProof,
                      Verifier!Verifies(proof, Verifier!RootOf(tree))
               PROVE  proof.leaf_hash = Verifier!LeafHash(tree[(proof.leaf_index % 4) + 1])
    BY DEF Verifier!ProofSound
  <2>1. DOMAIN proof.proof_path = 1 .. 2 /\ proof.leaf_index \in Nat
    BY DEF Verifier!MerkleProof
  <2> QED
    BY <2>1, LeafNamed
<1> QED
  BY <1>1, PTL
-----------------------------------------------------------------------------
(***************************************************************************)
(* Insurance pool.                                                         *)
(***************************************************************************)

ClaimStatus == {"Submitted", "Verified", "Approved", "Rejected", "Paid"}
InsuranceGovernance == [approvers : Seq(Account), threshold : Nat, delay : Nat]
PoolRecord ==
    [rate : Nat \ {0}, risk : Nat, limits : Limits \cup {DefaultLimits}, total : Int,
     staked : Nat, queued : Nat, coverage : Nat, acc : Nat, collected : Nat, paid : Nat,
     paid_claims : Nat, rejected_claims : Nat]
Position ==
    [staked : Nat, pending : Nat, reward_debt : Nat, accrued : Nat, claimed : Nat,
     slashed : Nat]
WithdrawalRequest == [staker : Account, amount : Nat, unlock_time : Nat, claimed : BOOLEAN]
InsuranceClaim ==
    [claimant : Account, amount : Nat, status : ClaimStatus, approvals : SUBSET Account,
     slashed : Nat]

\* The totals of positions.
StakedIn(p) == SumFunctionOnSet([a \in Account |-> p[a].staked], Account)
PendingIn(p) == SumFunctionOnSet([a \in Account |-> p[a].pending], Account)

\* The settings, the records of claims and requests, and the pool that must exist for any.
InsuranceSettings ==
    /\ now \in 0 .. MaxNow
    /\ governance \in InsuranceGovernance
    /\ governance.threshold \in 1 .. Len(governance.approvers)
    /\ last_claim \in [Account -> 0 .. MaxNow]

InsuranceRecords ==
    /\ claims \in Seq(InsuranceClaim) /\ Len(claims) <= MaxClaims
    /\ requests \in Seq(WithdrawalRequest) /\ Len(requests) <= MaxRequests

PoolSound ==
    IF Insurance!Created
    THEN pool \in PoolRecord
    ELSE claims = <<>> /\ requests = <<>> /\ positions = [a \in Account |-> Insurance!NewPosition]

\* The books, part by part.
StakesBooked ==
    Insurance!Created => pool.staked = StakedIn(positions) /\ pool.queued = PendingIn(positions)

QueueBooked ==
    \A a \in Account :
        positions[a].pending = AmountsAt(requests, Insurance!Waiting(a))

LiquidityBooked ==
    Insurance!Created =>
        /\ pool.total = pool.staked + pool.queued - pool.paid
        /\ pool.paid = AmountsAt(claims, Insurance!ClaimsIn("Paid"))
        /\ pool.rejected_claims = Cardinality(Insurance!ClaimsIn("Rejected"))

\* The inductive invariant.
InsuranceInv ==
    /\ InsuranceSettings /\ InsuranceRecords /\ PoolSound
    /\ positions \in [Account -> Position]
    /\ StakesBooked /\ QueueBooked /\ LiquidityBooked

\* The pool counts and adds up as the library does.
LEMMA InsuranceCounts ==
    /\ \A S : Insurance!Cardinality(S) = Cardinality(S)
    /\ \A S : Insurance!IsFiniteSet(S) <=> IsFiniteSet(S)
    /\ \A f, S : Insurance!SumFunctionOnSet(f, S) = SumFunctionOnSet(f, S)
BY DEF Insurance!Cardinality, Cardinality, Insurance!IsFiniteSet, IsFiniteSet, Insurance!SumFunctionOnSet, SumFunctionOnSet,
   Insurance!FoldFunctionOnSet, FoldFunctionOnSet, Insurance!MapThenFoldSet, MapThenFoldSet

\* Requests and claims are records, and finitely many.
LEMMA InsuranceRead ==
    ASSUME InsuranceInv
    PROVE  /\ \A k \in DOMAIN requests : requests[k] \in WithdrawalRequest
           /\ \A k \in DOMAIN claims : claims[k] \in InsuranceClaim
           /\ \A a : IsFiniteSet(Insurance!Waiting(a))
           /\ \A s : IsFiniteSet(Insurance!ClaimsIn(s))
<1>1. /\ claims \in Seq(InsuranceClaim) /\ requests \in Seq(WithdrawalRequest)
  BY DEF InsuranceInv, InsuranceRecords
<1>2. \A n \in Nat : IsFiniteSet(1 .. n)
  BY FS_Interval
<1>3. IsFiniteSet(DOMAIN requests) /\ IsFiniteSet(DOMAIN claims)
  <2>1. /\ DOMAIN requests = 1 .. Len(requests) /\ Len(requests) \in Nat
        /\ DOMAIN claims = 1 .. Len(claims) /\ Len(claims) \in Nat
    BY <1>1
  <2> QED
    BY <1>2, <2>1
<1>4. \A a : Insurance!Waiting(a) \subseteq DOMAIN requests
  BY DEF Insurance!Waiting
<1>5. \A s : Insurance!ClaimsIn(s) \subseteq DOMAIN claims
  BY DEF Insurance!ClaimsIn
<1>6. \A k \in DOMAIN requests : requests[k] \in WithdrawalRequest
  BY <1>1
<1>7. \A k \in DOMAIN claims : claims[k] \in InsuranceClaim
  BY <1>1
<1> QED
  BY <1>3, <1>4, <1>5, <1>6, <1>7, FS_Subset

\* The invariant says what is checked of the pool.
LEMMA InsuranceChecked ==
    ASSUME InsuranceInv
    PROVE  Insurance!TypeOK /\ Insurance!PoolBooks
<1>1. Insurance!PoolBooks
  <2>1. SUFFICES ASSUME Insurance!Created PROVE
          /\ pool.staked = SumFunctionOnSet([a \in Account |-> positions[a].staked], Account)
          /\ pool.queued = SumFunctionOnSet([a \in Account |-> positions[a].pending], Account)
          /\ \A a \in Account : positions[a].pending =
                SumFunctionOnSet([k \in Insurance!Waiting(a) |-> requests[k].amount],
                                 Insurance!Waiting(a))
          /\ pool.total = pool.staked + pool.queued - pool.paid
          /\ pool.paid = SumFunctionOnSet([k \in Insurance!ClaimsIn("Paid") |-> claims[k].amount],
                                          Insurance!ClaimsIn("Paid"))
          /\ pool.rejected_claims = Cardinality(Insurance!ClaimsIn("Rejected"))
    BY InsuranceCounts DEF Insurance!PoolBooks
  <2>2. pool.staked = StakedIn(positions) /\ pool.queued = PendingIn(positions)
    BY <2>1 DEF InsuranceInv, StakesBooked
  <2>3. \A a \in Account : positions[a].pending = AmountsAt(requests, Insurance!Waiting(a))
    BY DEF InsuranceInv, QueueBooked
  <2>4. /\ pool.total = pool.staked + pool.queued - pool.paid
        /\ pool.paid = AmountsAt(claims, Insurance!ClaimsIn("Paid"))
        /\ pool.rejected_claims = Cardinality(Insurance!ClaimsIn("Rejected"))
    BY <2>1 DEF InsuranceInv, LiquidityBooked
  <2> QED
    BY <2>2, <2>3, <2>4 DEF StakedIn, PendingIn, AmountsAt
<1>2. Insurance!TypeOK
  <2>1. Insurance!Created => /\ pool.staked \in Nat /\ pool.queued \in Nat
                             /\ pool.coverage \in Nat /\ pool.acc \in Nat /\ pool.total \in Int
    BY DEF InsuranceInv, PoolSound, PoolRecord
  <2>2. ASSUME NEW who \in Account, NEW f \in DOMAIN Insurance!NewPosition
        PROVE  positions[who][f] \in Nat
    <3>1. positions[who] \in Position
      BY DEF InsuranceInv
    <3>2. f \in {"staked", "pending", "reward_debt", "accrued", "claimed", "slashed"}
      BY DEF Insurance!NewPosition
    <3> QED
      BY <3>1, <3>2 DEF Position
  <2> QED
    BY <2>1, <2>2 DEF InsuranceInv, InsuranceSettings, InsuranceRecords, Insurance!TypeOK
<1> QED
  BY <1>1, <1>2

\* It holds at first.
LEMMA InitInsurance ==
    ASSUME Insurance!InsuranceConstants, Insurance!Init
    PROVE  InsuranceInv
<1>1. InsuranceSettings
  <2>1. <<Admin>> \in Seq(Account) /\ Len(<<Admin>>) = 1
    BY DEF Insurance!InsuranceConstants
  <2> QED
    BY <2>1 DEF Insurance!InsuranceConstants, Insurance!Init, InsuranceSettings,
       InsuranceGovernance
<1>2. InsuranceRecords /\ ~Insurance!Created /\ PoolSound
  BY DEF Insurance!InsuranceConstants, Insurance!Init, InsuranceRecords, PoolSound,
     Insurance!Created
<1>3. positions \in [Account -> Position]
  BY DEF Insurance!Init, Position, Insurance!NewPosition
<1>4. QueueBooked
  <2>1. SUFFICES ASSUME NEW a \in Account
                 PROVE  positions[a].pending = AmountsAt(requests, Insurance!Waiting(a))
    BY DEF QueueBooked
  <2>2. Insurance!Waiting(a) = {}
    BY DEF Insurance!Init, Insurance!Waiting
  <2>3. positions[a].pending = 0
    BY DEF Insurance!Init, Insurance!NewPosition
  <2> QED
    BY <2>2, <2>3, SumEmpty DEF AmountsAt
<1> QED
  BY <1>1, <1>2, <1>3, <1>4 DEF InsuranceInv, StakesBooked, LiquidityBooked

\* A position whose stake is changed: what it earned is kept apart, the rest stays.
LEMMA RestakedType ==
    ASSUME Insurance!InsuranceConstants, pool \in PoolRecord, NEW p \in Position,
           NEW amount \in Int, p.staked + amount >= 0
    PROVE  /\ Insurance!Restaked(p, amount) \in Position
           /\ Insurance!Restaked(p, amount).staked = p.staked + amount
           /\ Insurance!Restaked(p, amount).pending = p.pending
           /\ Insurance!Restaked(p, amount).slashed = p.slashed
           /\ Insurance!Restaked(p, amount).claimed = p.claimed
           /\ Insurance!Restaked(p, amount).accrued = p.accrued + Insurance!Pending(p)
           /\ Insurance!Restaked(p, amount).reward_debt = Insurance!RewardDebt(p.staked + amount)
           /\ Insurance!Pending(p) \in Nat
<1>1. ASSUME NEW s \in Nat PROVE Insurance!RewardDebt(s) \in Nat
  <2>1. s * pool.acc \in Nat /\ RewardScale \in Nat \ {0}
    BY SMTT(30) DEF PoolRecord, Insurance!InsuranceConstants
  <2> QED
    BY <2>1, DivisionBounds DEF Insurance!RewardDebt
<1>2. p.staked \in Nat /\ p.pending \in Nat /\ p.accrued \in Nat /\ p.reward_debt \in Nat
      /\ p.staked + amount \in Nat
  BY DEF Position
<1>3. Insurance!Pending(p) \in Nat
  BY <1>1, <1>2 DEF Insurance!Pending
<1>4. Insurance!RewardDebt(p.staked + amount) \in Nat
  BY <1>1, <1>2
<1>5. Insurance!Restaked(p, amount) =
          [p EXCEPT !.staked = p.staked + amount,
                    !.accrued = p.accrued + Insurance!Pending(p),
                    !.reward_debt = Insurance!RewardDebt(p.staked + amount)]
  BY DEF Insurance!Restaked
<1> DEFINE earned == p.accrued + Insurance!Pending(p)
           debt_after == Insurance!RewardDebt(p.staked + amount)
           stake_after == p.staked + amount
<1>6. earned \in Nat /\ debt_after \in Nat /\ stake_after \in Nat
  BY <1>2, <1>3, <1>4
<1>7. Insurance!Restaked(p, amount) =
          [p EXCEPT !.staked = stake_after, !.accrued = earned, !.reward_debt = debt_after]
  BY <1>5
<1> HIDE DEF earned, debt_after, stake_after
<1>8. /\ Insurance!Restaked(p, amount) \in Position
      /\ Insurance!Restaked(p, amount).staked = stake_after
      /\ Insurance!Restaked(p, amount).pending = p.pending
      /\ Insurance!Restaked(p, amount).slashed = p.slashed
      /\ Insurance!Restaked(p, amount).claimed = p.claimed
      /\ Insurance!Restaked(p, amount).accrued = earned
      /\ Insurance!Restaked(p, amount).reward_debt = debt_after
  BY <1>6, <1>7 DEF Position
<1> QED
  BY <1>3, <1>8 DEF earned, debt_after, stake_after

\* One position changed: the totals change by its change.
LEMMA PositionMoved ==
    ASSUME IsFiniteSet(Account), NEW p \in [Account -> Position], NEW who \in Account,
           NEW q \in [Account -> Position], \A a \in Account \ {who} : q[a] = p[a]
    PROVE  /\ StakedIn(p) \in Int /\ PendingIn(p) \in Int
           /\ StakedIn(q) = StakedIn(p) + q[who].staked - p[who].staked
           /\ PendingIn(q) = PendingIn(p) + q[who].pending - p[who].pending
<1> DEFINE ps == [a \in Account |-> p[a].staked]
           qs == [a \in Account |-> q[a].staked]
           pp == [a \in Account |-> p[a].pending]
           qp == [a \in Account |-> q[a].pending]
<1>2. \A a \in Account : ps[a] \in Int /\ qs[a] \in Int /\ pp[a] \in Int /\ qp[a] \in Int
  BY DEF Position
<1>3. \A a \in Account \ {who} : qs[a] = ps[a] /\ qp[a] = pp[a]
  OBVIOUS
<1>4. /\ ps[who] = p[who].staked /\ qs[who] = q[who].staked
      /\ pp[who] = p[who].pending /\ qp[who] = q[who].pending
  OBVIOUS
<1>5. /\ StakedIn(p) = SumFunctionOnSet(ps, Account) /\ StakedIn(q) = SumFunctionOnSet(qs, Account)
      /\ PendingIn(p) = SumFunctionOnSet(pp, Account)
      /\ PendingIn(q) = SumFunctionOnSet(qp, Account)
  BY DEF StakedIn, PendingIn
<1> HIDE DEF ps, qs, pp, qp
<1>6. SumFunctionOnSet(qs, Account) = SumFunctionOnSet(ps, Account) + qs[who] - ps[who]
  BY <1>2, <1>3, SumChange
<1>7. SumFunctionOnSet(qp, Account) = SumFunctionOnSet(pp, Account) + qp[who] - pp[who]
  BY <1>2, <1>3, SumChange
<1>8. SumFunctionOnSet(ps, Account) \in Int /\ SumFunctionOnSet(pp, Account) \in Int
  BY <1>2, SumType
<1> QED
  BY <1>4, <1>5, <1>6, <1>7, <1>8

\* A pool that exists has the fields of one.
LEMMA PoolCreated ==
    ASSUME InsuranceInv, Insurance!Created
    PROVE  /\ pool \in PoolRecord
           /\ pool.staked = StakedIn(positions) /\ pool.queued = PendingIn(positions)
           /\ pool.total = pool.staked + pool.queued - pool.paid
           /\ pool.paid = AmountsAt(claims, Insurance!ClaimsIn("Paid"))
           /\ pool.rejected_claims = Cardinality(Insurance!ClaimsIn("Rejected"))
BY DEF InsuranceInv, PoolSound, StakesBooked, LiquidityBooked

\* A record with the fields of a pool is one that was created.
LEMMA RecordIsCreated ==
    ASSUME pool' \in PoolRecord
    PROVE  Insurance!Created'
<1>1. pool'.rate # 0
  BY DEF PoolRecord
<1>2. Insurance!NoPool.rate = 0
  BY DEF Insurance!NoPool
<1> QED
  BY <1>1, <1>2 DEF Insurance!Created, Insurance!NoPool

\* Calls that leave every position's queue and the requests alone keep the queue booked.
LEMMA QueueKept ==
    ASSUME InsuranceInv, UNCHANGED requests,
           \A a \in Account : positions'[a].pending = positions[a].pending
    PROVE  QueueBooked'
<1>1. ASSUME NEW a \in Account
      PROVE  positions'[a].pending = AmountsAt(requests', Insurance!Waiting(a)')
  <2>1. Insurance!Waiting(a)' = Insurance!Waiting(a)
    BY DEF Insurance!Waiting
  <2>2. positions[a].pending = AmountsAt(requests, Insurance!Waiting(a))
    BY DEF InsuranceInv, QueueBooked
  <2> QED
    BY <2>1, <2>2
<1> QED
  BY <1>1 DEF QueueBooked, AmountsAt

\* Calls that leave positions and records alone, and the fields of the pool that are booked.
LEMMA BooksKept ==
    ASSUME InsuranceInv, UNCHANGED <<positions, claims, requests>>, InsuranceSettings',
           \/ UNCHANGED pool
           \/ /\ Insurance!Created /\ pool' \in PoolRecord
              /\ pool'.staked = pool.staked /\ pool'.queued = pool.queued
              /\ pool'.total = pool.total /\ pool'.paid = pool.paid
              /\ pool'.rejected_claims = pool.rejected_claims
    PROVE  InsuranceInv'
<1>1. QueueBooked'
  BY QueueKept
<1>2. InsuranceRecords' /\ positions' \in [Account -> Position]
  BY DEF InsuranceInv, InsuranceRecords, WithdrawalRequest, InsuranceClaim, ClaimStatus, Position
<1>3. \A s : Insurance!ClaimsIn(s)' = Insurance!ClaimsIn(s)
  BY DEF Insurance!ClaimsIn
<1>4. CASE UNCHANGED pool
  <2>1. PoolSound' /\ StakesBooked'
    BY <1>4 DEF InsuranceInv, PoolSound, StakesBooked, Insurance!Created, Insurance!NoPool,
       Insurance!NewPosition, PoolRecord, StakedIn, PendingIn
  <2>2. LiquidityBooked'
    BY <1>3, <1>4 DEF InsuranceInv, LiquidityBooked, Insurance!Created, Insurance!NoPool,
       AmountsAt
  <2> QED
    BY <1>1, <1>2, <2>1, <2>2 DEF InsuranceInv
<1>5. CASE /\ Insurance!Created /\ pool' \in PoolRecord
           /\ pool'.staked = pool.staked /\ pool'.queued = pool.queued
           /\ pool'.total = pool.total /\ pool'.paid = pool.paid
           /\ pool'.rejected_claims = pool.rejected_claims
  <2>1. Insurance!Created'
    BY <1>5, RecordIsCreated
  <2>2. PoolSound'
    BY <1>5, <2>1 DEF PoolSound, PoolRecord
  <2>3. StakesBooked' /\ LiquidityBooked'
    BY <1>3, <1>5, PoolCreated DEF StakesBooked, LiquidityBooked, StakedIn, PendingIn, AmountsAt
  <2> QED
    BY <1>1, <1>2, <2>2, <2>3 DEF InsuranceInv
<1> QED
  BY <1>4, <1>5

\* A share is counted in a number of basis points.
LEMMA RatesInBps == Insurance!Bps \in Nat
BY DEF Insurance!Bps

\* Its governance, the clock, and the settings of a pool that exists.
LEMMA SettingsKeep ==
    ASSUME Insurance!InsuranceConstants, InsuranceInv,
           \/ \E g \in Approvals : Insurance!ConfigureGovernance(g)
           \/ \E risk \in Risks : Insurance!SetRiskScore(risk)
           \/ \E limits \in Limits : Insurance!ConfigureClaimLimits(limits)
           \/ Insurance!Tick
           \/ UNCHANGED Insurance!vars
    PROVE  InsuranceInv'
<1>1. InsuranceSettings
  BY DEF InsuranceInv
<1>2. CASE \E g \in Approvals : Insurance!ConfigureGovernance(g)
  <2>1. PICK g \in Approvals : Insurance!ConfigureGovernance(g)
    BY <1>2
  <2>2. g \in InsuranceGovernance
    BY DEF Insurance!InsuranceConstants, InsuranceGovernance
  <2>3. InsuranceSettings'
    BY <1>1, <2>1, <2>2 DEF InsuranceSettings, Insurance!ConfigureGovernance, InsuranceGovernance
  <2> QED
    BY <2>1, <2>3, BooksKept DEF Insurance!ConfigureGovernance
<1>3. CASE \E risk \in Risks : Insurance!SetRiskScore(risk)
  <2>1. PICK risk \in Risks : Insurance!SetRiskScore(risk)
    BY <1>3
  <2>2. /\ Insurance!Created /\ risk \in Nat /\ pool' = [pool EXCEPT !.risk = risk]
        /\ UNCHANGED <<now, governance, positions, claims, last_claim, requests>>
    <3>1. risk \in 0 .. Insurance!Bps
      BY <2>1 DEF Insurance!SetRiskScore
    <3>2. risk \in Nat
      BY <3>1, RatesInBps
    <3> QED
      BY <2>1, <3>2 DEF Insurance!SetRiskScore
  <2>3. InsuranceSettings'
    BY <1>1, <2>2 DEF InsuranceSettings, InsuranceGovernance
  <2>4. pool' \in PoolRecord
    BY <2>2, PoolCreated DEF PoolRecord
  <2>5. /\ pool'.staked = pool.staked /\ pool'.queued = pool.queued
        /\ pool'.total = pool.total /\ pool'.paid = pool.paid
        /\ pool'.rejected_claims = pool.rejected_claims
    BY <2>2, PoolCreated DEF PoolRecord
  <2> QED
    BY <2>2, <2>3, <2>4, <2>5, BooksKept
<1>4. CASE \E limits \in Limits : Insurance!ConfigureClaimLimits(limits)
  <2>1. PICK limits \in Limits : Insurance!ConfigureClaimLimits(limits)
    BY <1>4
  <2>2. /\ Insurance!Created /\ pool' = [pool EXCEPT !.limits = limits]
        /\ UNCHANGED <<now, governance, positions, claims, last_claim, requests>>
    BY <2>1 DEF Insurance!ConfigureClaimLimits
  <2>3. InsuranceSettings'
    BY <1>1, <2>2 DEF InsuranceSettings, InsuranceGovernance
  <2>4. pool' \in PoolRecord
    BY <2>2, PoolCreated DEF PoolRecord
  <2>5. /\ pool'.staked = pool.staked /\ pool'.queued = pool.queued
        /\ pool'.total = pool.total /\ pool'.paid = pool.paid
        /\ pool'.rejected_claims = pool.rejected_claims
    BY <2>2, PoolCreated DEF PoolRecord
  <2> QED
    BY <2>2, <2>3, <2>4, <2>5, BooksKept
<1>5. CASE Insurance!Tick
  <2>1. InsuranceSettings'
    BY <1>1, <1>5, SMTT(30) DEF InsuranceSettings, InsuranceGovernance, Insurance!Tick, Insurance!poolVars,
       Insurance!InsuranceConstants
  <2> QED
    BY <1>5, <2>1, BooksKept DEF Insurance!Tick, Insurance!poolVars
<1>6. CASE UNCHANGED Insurance!vars
  <2>1. InsuranceSettings'
    BY <1>1, <1>6 DEF InsuranceSettings, InsuranceGovernance, Insurance!vars, Insurance!poolVars
  <2> QED
    BY <1>6, <2>1, BooksKept DEF Insurance!vars, Insurance!poolVars
<1> QED
  BY <1>2, <1>3, <1>4, <1>5, <1>6

\* A pool is created with nothing in it, or set anew.
LEMMA CreateKeeps ==
    ASSUME Insurance!InsuranceConstants, InsuranceInv, NEW rate \in Rates, NEW risk \in Risks,
           Insurance!CreatePool(rate, risk)
    PROVE  InsuranceInv'
<1>1. /\ rate \in Nat \ {0} /\ risk \in Nat
      /\ UNCHANGED <<now, governance, positions, claims, last_claim, requests>>
  <2>1. rate \in 1 .. 5000
    BY SMTT(30) DEF Insurance!CreatePool
  <2>2. rate \in Nat \ {0}
    BY ONLY <2>1, SMTT(30)
  <2>3. risk \in 0 .. Insurance!Bps
    BY SMTT(30) DEF Insurance!CreatePool
  <2>4. risk \in Nat
    BY ONLY <2>3, RatesInBps
  <2> QED
    BY <2>2, <2>4, SMTT(30) DEF Insurance!CreatePool
<1>2. InsuranceSettings'
  BY <1>1 DEF InsuranceInv, InsuranceSettings, InsuranceGovernance
<1>3. CASE Insurance!Created
  <2>1. pool' = [pool EXCEPT !.rate = rate, !.risk = risk] /\ pool \in PoolRecord
    BY <1>3, PoolCreated DEF Insurance!CreatePool
  <2>2. /\ pool' \in PoolRecord
        /\ pool'.staked = pool.staked /\ pool'.queued = pool.queued
        /\ pool'.total = pool.total /\ pool'.paid = pool.paid
        /\ pool'.rejected_claims = pool.rejected_claims
    BY <1>1, <2>1 DEF PoolRecord
  <2> QED
    BY <1>1, <1>2, <1>3, <2>2, BooksKept
<1>4. CASE ~Insurance!Created
  <2>1. pool' = Insurance!NewPool(rate, risk)
    BY <1>4 DEF Insurance!CreatePool
  <2>2. /\ pool' \in PoolRecord
        /\ pool'.staked = 0 /\ pool'.queued = 0 /\ pool'.total = 0 /\ pool'.paid = 0
        /\ pool'.rejected_claims = 0
    BY <1>1, <2>1 DEF PoolRecord, Insurance!NewPool
  <2>3. /\ claims = <<>> /\ positions = [a \in Account |-> Insurance!NewPosition]
        /\ requests = <<>>
    BY <1>4 DEF InsuranceInv, PoolSound
  <2>4. Insurance!Created'
    BY <2>2, RecordIsCreated
  <2>5. StakedIn(positions) = 0 /\ PendingIn(positions) = 0
    <3>1. \A a \in Account : /\ [b \in Account |-> positions[b].staked][a] = 0
                             /\ [b \in Account |-> positions[b].pending][a] = 0
      BY <2>3 DEF Insurance!NewPosition
    <3>2. IsFiniteSet(Account)
      BY InsuranceCounts DEF Insurance!InsuranceConstants
    <3> DEFINE f == [b \in Account |-> positions[b].staked]
               g == [b \in Account |-> positions[b].pending]
    <3>3. SumFunctionOnSet(f, Account) = 0 /\ SumFunctionOnSet(g, Account) = 0
      <4>1. \A a \in Account : f[a] = 0 /\ g[a] = 0
        BY <3>1
      <4> HIDE DEF f, g
      <4> QED
        BY <3>2, <4>1, SumConstantZero
    <3> QED
      BY <3>3 DEF StakedIn, PendingIn
  <2>6. Insurance!ClaimsIn("Paid") = {} /\ Insurance!ClaimsIn("Rejected") = {}
    BY <2>3 DEF Insurance!ClaimsIn
  <2>7. AmountsAt(claims, {}) = 0 /\ Cardinality({}) = 0
    BY SumEmpty, FS_EmptySet DEF AmountsAt
  <2>8. StakesBooked'
    BY <1>1, <2>2, <2>5 DEF StakesBooked, StakedIn, PendingIn
  <2>9. LiquidityBooked'
    <3>1. Insurance!ClaimsIn("Paid")' = {} /\ Insurance!ClaimsIn("Rejected")' = {}
      BY <1>1, <2>6 DEF Insurance!ClaimsIn
    <3>2. AmountsAt(claims', {}) = 0
      BY <1>1, <2>7
    <3> QED
      BY <2>2, <2>7, <3>1, <3>2 DEF LiquidityBooked
  <2>10. PoolSound'
    BY <2>2, <2>4 DEF PoolSound, PoolRecord
  <2>11. QueueBooked'
    BY <1>1, QueueKept
  <2>12. InsuranceRecords' /\ positions' \in [Account -> Position]
    BY <1>1 DEF InsuranceInv, InsuranceRecords, WithdrawalRequest, InsuranceClaim, ClaimStatus,
       Position
  <2> QED
    BY <1>2, <2>8, <2>9, <2>10, <2>11, <2>12 DEF InsuranceInv
<1> QED
  BY <1>3, <1>4

\* One position changes and the pool's stake and queue with it.
LEMMA StakesRejoined ==
    ASSUME Insurance!InsuranceConstants, InsuranceInv, Insurance!Created, NEW who \in Account,
           NEW r \in Position, positions' = [positions EXCEPT ![who] = r],
           pool' \in PoolRecord,
           pool'.staked = pool.staked + r.staked - positions[who].staked,
           pool'.queued = pool.queued + r.pending - positions[who].pending
    PROVE  /\ PoolSound' /\ StakesBooked'
           /\ positions' \in [Account -> Position] /\ positions'[who] = r
           /\ \A a \in Account \ {who} : positions'[a] = positions[a]
<1>1. IsFiniteSet(Account) /\ positions \in [Account -> Position]
  BY InsuranceCounts DEF Insurance!InsuranceConstants, InsuranceInv
<1>2. /\ positions' \in [Account -> Position] /\ positions'[who] = r
      /\ \A a \in Account \ {who} : positions'[a] = positions[a]
      /\ StakedIn(positions') = StakedIn(positions) + r.staked - positions[who].staked
      /\ PendingIn(positions') = PendingIn(positions) + r.pending - positions[who].pending
  <2>1. /\ positions' \in [Account -> Position] /\ positions'[who] = r
        /\ \A a \in Account \ {who} : positions'[a] = positions[a]
    BY <1>1
  <2>2. /\ StakedIn(positions') = StakedIn(positions) + positions'[who].staked
                                                      - positions[who].staked
        /\ PendingIn(positions') = PendingIn(positions) + positions'[who].pending
                                                        - positions[who].pending
    <3>1. positions' \in [Account -> Position]
      BY <2>1
    <3>2. \A a \in Account \ {who} : positions'[a] = positions[a]
      BY <2>1
    <3> QED
      BY ONLY <1>1, <3>1, <3>2, who \in Account, PositionMoved
  <2>3. positions'[who] = r
    BY <2>1
  <2>4. /\ StakedIn(positions') = StakedIn(positions) + r.staked - positions[who].staked
        /\ PendingIn(positions') = PendingIn(positions) + r.pending - positions[who].pending
    BY ONLY <2>2, <2>3
  <2> QED
    BY ONLY <2>1, <2>4
<1>3. pool.staked = StakedIn(positions) /\ pool.queued = PendingIn(positions)
  BY PoolCreated
<1>4. StakesBooked'
  BY <1>2, <1>3 DEF StakesBooked, StakedIn, PendingIn
<1>5. PoolSound'
  BY RecordIsCreated DEF PoolSound, PoolRecord
<1> QED
  BY <1>2, <1>4, <1>5 DEF Position

\* Calls that leave the claims alone, and the difference that the liquidity is booked by.
LEMMA LiquidityKept ==
    ASSUME InsuranceInv, Insurance!Created, UNCHANGED claims,
           pool'.total - pool'.staked - pool'.queued = pool.total - pool.staked - pool.queued,
           pool'.paid = pool.paid, pool'.rejected_claims = pool.rejected_claims,
           pool' \in PoolRecord
    PROVE  LiquidityBooked'
<1>1. \A s : Insurance!ClaimsIn(s)' = Insurance!ClaimsIn(s)
  BY DEF Insurance!ClaimsIn
<1>2. pool'.total = pool'.staked + pool'.queued - pool'.paid
  <2>1. pool.total = pool.staked + pool.queued - pool.paid
    BY PoolCreated
  <2>2. /\ pool.total \in Int /\ pool.staked \in Int /\ pool.queued \in Int /\ pool.paid \in Int
        /\ pool'.total \in Int /\ pool'.staked \in Int /\ pool'.queued \in Int
    BY PoolCreated DEF PoolRecord
  <2> QED
    BY <2>1, <2>2
<1> QED
  BY <1>1, <1>2, PoolCreated DEF LiquidityBooked, AmountsAt

\* A stake keeps the invariant.
LEMMA StakeKeeps ==
    ASSUME Insurance!InsuranceConstants, InsuranceInv, NEW who \in Account,
           NEW amount \in Stakes, Insurance!StakeLiquidity(who, amount)
    PROVE  InsuranceInv'
<1> DEFINE p == positions[who]
           r == Insurance!Restaked(p, amount)
<1>1. /\ Insurance!Created /\ amount > 0 /\ amount \in Int
      /\ positions' = [positions EXCEPT ![who] = r]
      /\ pool' = [pool EXCEPT !.total = pool.total + amount, !.staked = pool.staked + amount]
      /\ UNCHANGED <<now, governance, claims, last_claim, requests>>
  BY DEF Insurance!StakeLiquidity, Insurance!InsuranceConstants
<1>2. pool \in PoolRecord /\ p \in Position
  BY <1>1, PoolCreated DEF InsuranceInv
<1>3. r \in Position /\ r.staked = p.staked + amount /\ r.pending = p.pending
  <2>1. p.staked + amount >= 0
    BY <1>1, <1>2 DEF Position
  <2> HIDE DEF p
  <2> QED
    BY <1>1, <1>2, <2>1, RestakedType
<1> HIDE DEF r
<1>4. /\ pool' \in PoolRecord
      /\ pool'.staked = pool.staked + amount /\ pool'.queued = pool.queued
      /\ pool'.total = pool.total + amount /\ pool'.paid = pool.paid
      /\ pool'.rejected_claims = pool.rejected_claims
  <2>1. pool.total + amount \in Int /\ pool.staked + amount \in Nat
    BY <1>1, <1>2 DEF PoolRecord
  <2> QED
    BY <1>1, <1>2, <2>1 DEF PoolRecord
<1>5. /\ p.staked \in Nat /\ p.pending \in Nat /\ pool.staked \in Nat /\ pool.queued \in Nat
      /\ pool.total \in Int
  BY <1>2 DEF Position, PoolRecord
<1>6. /\ pool'.staked = pool.staked + r.staked - positions[who].staked
      /\ pool'.queued = pool.queued + r.pending - positions[who].pending
      /\ pool'.total - pool'.staked - pool'.queued = pool.total - pool.staked - pool.queued
  BY <1>1, <1>3, <1>4, <1>5
<1>7. /\ PoolSound' /\ StakesBooked' /\ positions' \in [Account -> Position]
      /\ positions'[who] = r /\ \A a \in Account \ {who} : positions'[a] = positions[a]
  BY <1>1, <1>3, <1>4, <1>6, StakesRejoined
<1>8. QueueBooked'
  BY <1>1, <1>3, <1>7, QueueKept
<1>9. LiquidityBooked'
  BY <1>1, <1>4, <1>6, LiquidityKept
<1>10. InsuranceSettings' /\ InsuranceRecords'
  BY <1>1 DEF InsuranceInv, InsuranceSettings, InsuranceGovernance, InsuranceRecords,
     WithdrawalRequest, InsuranceClaim, ClaimStatus
<1> QED
  BY <1>7, <1>8, <1>9, <1>10 DEF InsuranceInv

\* Claiming premiums keeps the invariant.
LEMMA PremiumKeeps ==
    ASSUME Insurance!InsuranceConstants, InsuranceInv, NEW who \in Account,
           Insurance!ClaimPremium(who)
    PROVE  InsuranceInv'
<1> DEFINE p == positions[who]
           s == Insurance!Restaked(p, 0)
           r == [s EXCEPT !.accrued = 0, !.claimed = s.claimed + s.accrued]
<1>1. /\ Insurance!Created /\ positions' = [positions EXCEPT ![who] = r]
      /\ UNCHANGED <<now, governance, pool, claims, last_claim, requests>>
  BY DEF Insurance!ClaimPremium
<1>2. pool \in PoolRecord /\ p \in Position
  BY <1>1, PoolCreated DEF InsuranceInv
<1>3. s \in Position /\ s.staked = p.staked /\ s.pending = p.pending
  <2>1. p.staked + 0 >= 0 /\ p.staked + 0 = p.staked
    BY <1>2 DEF Position
  <2> HIDE DEF p
  <2> QED
    BY <1>2, <2>1, RestakedType
<1>4. r \in Position /\ r.staked = p.staked /\ r.pending = p.pending
  <2> HIDE DEF s, p
  <2>1. s.claimed + s.accrued \in Nat
    BY <1>3 DEF Position
  <2> QED
    BY <1>3, <2>1 DEF Position
<1> HIDE DEF r
<1>5. /\ p.staked \in Nat /\ p.pending \in Nat /\ pool.staked \in Nat /\ pool.queued \in Nat
      /\ pool' = pool /\ pool' \in PoolRecord
  BY <1>1, <1>2 DEF Position, PoolRecord
<1>6. /\ pool'.staked = pool.staked + r.staked - positions[who].staked
      /\ pool'.queued = pool.queued + r.pending - positions[who].pending
  BY <1>4, <1>5
<1>7. /\ PoolSound' /\ StakesBooked' /\ positions' \in [Account -> Position]
      /\ positions'[who] = r /\ \A a \in Account \ {who} : positions'[a] = positions[a]
  BY <1>1, <1>4, <1>5, <1>6, StakesRejoined
<1>8. QueueBooked'
  BY <1>1, <1>4, <1>7, QueueKept
<1>9. LiquidityBooked'
  BY <1>1, <1>5, LiquidityKept
<1>10. InsuranceSettings' /\ InsuranceRecords'
  BY <1>1 DEF InsuranceInv, InsuranceSettings, InsuranceGovernance, InsuranceRecords,
     WithdrawalRequest, InsuranceClaim, ClaimStatus
<1> QED
  BY <1>7, <1>8, <1>9, <1>10 DEF InsuranceInv

\* A request moves stake into the queue.
LEMMA RequestKept ==
    ASSUME Insurance!InsuranceConstants, InsuranceInv, NEW who \in Account,
           NEW amount \in Stakes, Insurance!RequestWithdrawal(who, amount)
    PROVE  InsuranceInv'
<1> DEFINE p == positions[who]
           s == Insurance!Restaked(p, -amount)
           r == [s EXCEPT !.pending = s.pending + amount]
           w == [staker |-> who, amount |-> amount, unlock_time |-> now + governance.delay,
                 claimed |-> FALSE]
           n == Len(requests) + 1
<1>1. /\ Insurance!Created /\ amount > 0 /\ amount \in Int /\ p.staked >= amount
      /\ Len(requests) < MaxRequests
      /\ positions' = [positions EXCEPT ![who] = r]
      /\ pool' = [pool EXCEPT !.staked = pool.staked - amount, !.queued = pool.queued + amount]
      /\ requests' = Append(requests, w)
      /\ UNCHANGED <<now, governance, claims, last_claim>>
  BY DEF Insurance!RequestWithdrawal, Insurance!InsuranceConstants
<1>2. pool \in PoolRecord /\ p \in Position
  BY <1>1, PoolCreated DEF InsuranceInv
<1>3. s \in Position /\ s.staked = p.staked - amount /\ s.pending = p.pending
  <2> HIDE DEF p
  <2>1. PICK staked \in Nat : staked = p.staked
    BY <1>2 DEF Position
  <2>2. amount \in Int /\ staked >= amount
    BY <1>1, <2>1
  <2>3. /\ -amount \in Int /\ p.staked + (-amount) >= 0
        /\ p.staked + (-amount) = p.staked - amount
    BY ONLY <2>1, <2>2
  <2> QED
    BY <1>2, <2>3, RestakedType
<1>4. r \in Position /\ r.staked = p.staked - amount /\ r.pending = p.pending + amount
  <2> HIDE DEF s, p
  <2>1. s.pending + amount \in Nat
    BY <1>1, <1>3 DEF Position
  <2> HIDE DEF s, p
  <2> QED
    BY ONLY <1>3, <2>1 DEF Position
<1> HIDE DEF r
<1>5. /\ p.staked \in Nat /\ p.pending \in Nat /\ pool.queued \in Nat /\ pool.staked \in Nat
      /\ pool.total \in Int
  BY <1>2 DEF Position, PoolRecord
<1>6. p.staked <= pool.staked
  <2> DEFINE f == [a \in Account |-> positions[a].staked]
  <2>1. \A a \in Account : f[a] \in Nat
    BY DEF InsuranceInv, Position
  <2>2. IsFiniteSet(Account)
    BY InsuranceCounts DEF Insurance!InsuranceConstants
  <2>3. f[who] <= SumFunctionOnSet(f, Account)
    <3> HIDE DEF f
    <3> QED
      BY <2>1, <2>2, SumNatural
  <2> QED
    BY <1>1, <2>3, PoolCreated DEF StakedIn
<1>7. /\ pool' \in PoolRecord
      /\ pool'.staked = pool.staked - amount /\ pool'.queued = pool.queued + amount
      /\ pool'.total = pool.total /\ pool'.paid = pool.paid
      /\ pool'.rejected_claims = pool.rejected_claims
  <2>1. pool.staked - amount \in Nat /\ pool.queued + amount \in Nat
    BY <1>1, <1>5, <1>6, SMTT(30)
  <2> QED
    BY <1>1, <1>2, <2>1 DEF PoolRecord
<1>8. /\ pool'.staked = pool.staked + r.staked - positions[who].staked
      /\ pool'.queued = pool.queued + r.pending - positions[who].pending
      /\ pool'.total - pool'.staked - pool'.queued = pool.total - pool.staked - pool.queued
  <2>1. amount \in Int
    BY <1>1
  <2> HIDE DEF p
  <2> QED
    BY <1>4, <1>5, <1>7, <2>1 DEF p
<1>9. /\ PoolSound' /\ StakesBooked' /\ positions' \in [Account -> Position]
      /\ positions'[who] = r /\ \A a \in Account \ {who} : positions'[a] = positions[a]
  BY <1>1, <1>4, <1>7, <1>8, StakesRejoined
<1>10. /\ requests \in Seq(WithdrawalRequest) /\ Len(requests) \in Nat
       /\ DOMAIN requests = 1 .. Len(requests)
  BY DEF InsuranceInv, InsuranceRecords
<1>11. w \in WithdrawalRequest /\ w.amount = amount /\ w.staker = who /\ w.claimed = FALSE
  <2>1. now + governance.delay \in Nat
    BY SMTT(30) DEF InsuranceInv, InsuranceSettings, InsuranceGovernance, Insurance!InsuranceConstants
  <2>2. amount \in Nat
    BY <1>1
  <2> QED
    BY <2>1, <2>2 DEF WithdrawalRequest
<1> HIDE DEF w
<1>12. /\ requests' \in Seq(WithdrawalRequest) /\ Len(requests') = n
       /\ DOMAIN requests' = 1 .. n /\ requests'[n] = w
       /\ \A k \in DOMAIN requests : requests'[k] = requests[k]
  BY <1>1, <1>10, <1>11
<1>13. QueueBooked'
  <2>1. ASSUME NEW a \in Account
        PROVE  positions'[a].pending = AmountsAt(requests', Insurance!Waiting(a)')
    <3> DEFINE S == Insurance!Waiting(a)
    <3>1. /\ S \subseteq DOMAIN requests /\ IsFiniteSet(S)
          /\ positions[a].pending = AmountsAt(requests, S)
      BY InsuranceRead DEF InsuranceInv, QueueBooked, Insurance!Waiting
    <3>2. \A k \in S : requests'[k].amount = requests[k].amount /\ requests[k].amount \in Int
      BY <1>12, <3>1, InsuranceRead DEF WithdrawalRequest
    <3>3. \A k : k \in 1 .. n <=> k \in DOMAIN requests \/ k = n
      BY <1>10
    <3>4. n \notin S
      BY <1>10, <3>1
    <3>5. CASE a = who
      <4>1. Insurance!Waiting(a)' = S \cup {n}
        BY <1>11, <1>12, <3>3, <3>5 DEF Insurance!Waiting
      <4>2. AmountsAt(requests', S \cup {n}) = AmountsAt(requests, S) + amount
        <5>1. requests'[n].amount = amount /\ amount \in Int
          BY <1>1, <1>11, <1>12
        <5>2. PICK old, new, place : old = requests /\ new = requests' /\ place = n
          OBVIOUS
        <5>3. /\ \A k \in S : new[k].amount = old[k].amount /\ old[k].amount \in Int
              /\ new[place].amount = amount /\ new[place].amount \in Int
          BY <3>2, <5>1, <5>2
        <5> HIDE DEF S, n
        <5>4. IsFiniteSet(S) /\ place \notin S
          BY <3>1, <3>4, <5>2
        <5>5. AmountsAt(new, S \cup {place}) = AmountsAt(old, S) + new[place].amount
          BY <5>3, <5>4, AmountAdded
        <5> QED
          BY <5>2, <5>3, <5>5
      <4> QED
        BY <1>4, <1>9, <3>1, <3>5, <4>1, <4>2
    <3>6. CASE a # who
      <4>1. Insurance!Waiting(a)' = S
        BY <1>11, <1>12, <3>3, <3>6 DEF Insurance!Waiting
      <4>2. AmountsAt(requests', S) = AmountsAt(requests, S)
        <5> HIDE DEF S
        <5> QED
          BY <3>1, <3>2, AmountsKept
      <4> QED
        BY <1>9, <3>1, <3>6, <4>1, <4>2
    <3> QED
      BY <3>5, <3>6
  <2> QED
    BY <2>1 DEF QueueBooked, AmountsAt
<1>14. LiquidityBooked'
  BY <1>1, <1>7, <1>8, LiquidityKept
<1>15. InsuranceSettings' /\ InsuranceRecords'
  <2>1. Len(requests') <= MaxRequests /\ MaxRequests \in Nat
    BY <1>1, <1>10, <1>12 DEF Insurance!InsuranceConstants
  <2> QED
    BY <1>1, <1>12, <2>1 DEF InsuranceInv, InsuranceSettings, InsuranceGovernance,
       InsuranceRecords, WithdrawalRequest, InsuranceClaim, ClaimStatus
<1> QED
  BY <1>9, <1>13, <1>14, <1>15 DEF InsuranceInv

\* A withdrawal leaves queue and liquidity, and its request is done.
LEMMA WithdrawKeeps ==
    ASSUME Insurance!InsuranceConstants, InsuranceInv, NEW who \in Account,
           NEW k \in DOMAIN requests, Insurance!ExecuteWithdrawal(who, k)
    PROVE  InsuranceInv'
<1> DEFINE p == positions[who]
           amount == requests[k].amount
           s == Insurance!Restaked(p, 0)
           r == [s EXCEPT !.pending = s.pending - amount]
<1>1. /\ requests[k].staker = who /\ requests[k].claimed = FALSE
      /\ p.pending >= amount /\ pool.queued >= amount
      /\ positions' = [positions EXCEPT ![who] = r]
      /\ pool' = [pool EXCEPT !.total = pool.total - amount, !.queued = pool.queued - amount]
      /\ requests' = [requests EXCEPT ![k].claimed = TRUE]
      /\ UNCHANGED <<now, governance, claims, last_claim>>
  <2>1. requests[k].claimed \in BOOLEAN
    BY InsuranceRead DEF WithdrawalRequest
  <2>2. ~requests[k].claimed
    BY DEF Insurance!ExecuteWithdrawal
  <2>3. requests[k].claimed = FALSE
    BY <2>1, <2>2, Zenon
  <2> QED
    BY <2>3 DEF Insurance!ExecuteWithdrawal
<1>2. Insurance!Created /\ requests[k] \in WithdrawalRequest
  BY InsuranceRead DEF InsuranceInv, PoolSound
<1>3. pool \in PoolRecord /\ p \in Position /\ amount \in Nat
  BY <1>2, PoolCreated DEF InsuranceInv, WithdrawalRequest
<1>4. s \in Position /\ s.staked = p.staked /\ s.pending = p.pending
  <2>1. p.staked + 0 >= 0 /\ p.staked + 0 = p.staked
    BY <1>3 DEF Position
  <2> HIDE DEF p
  <2> QED
    BY <1>3, <2>1, RestakedType
<1>5. r \in Position /\ r.staked = p.staked /\ r.pending = p.pending - amount
  <2> HIDE DEF s, p, amount
  <2>1. s.pending - amount \in Nat
    BY <1>1, <1>3, <1>4 DEF Position
  <2> QED
    BY <1>4, <2>1 DEF Position
<1> HIDE DEF r
<1>6. /\ p.staked \in Nat /\ p.pending \in Nat /\ pool.queued \in Nat /\ pool.staked \in Nat
      /\ pool.total \in Int
  BY <1>3 DEF Position, PoolRecord
<1>7. /\ pool' \in PoolRecord
      /\ pool'.staked = pool.staked /\ pool'.queued = pool.queued - amount
      /\ pool'.total = pool.total - amount /\ pool'.paid = pool.paid
      /\ pool'.rejected_claims = pool.rejected_claims
  <2>1. pool.total - amount \in Int /\ pool.queued - amount \in Nat
    BY <1>1, <1>3, <1>6
  <2> HIDE DEF amount
  <2> QED
    BY <1>1, <1>3, <2>1 DEF PoolRecord
<1>8. /\ pool'.staked = pool.staked + r.staked - positions[who].staked
      /\ pool'.queued = pool.queued + r.pending - positions[who].pending
      /\ pool'.total - pool'.staked - pool'.queued = pool.total - pool.staked - pool.queued
  <2> HIDE DEF p, amount
  <2> QED
    BY <1>3, <1>5, <1>6, <1>7 DEF p
<1>9. /\ PoolSound' /\ StakesBooked' /\ positions' \in [Account -> Position]
      /\ positions'[who] = r /\ \A a \in Account \ {who} : positions'[a] = positions[a]
  BY <1>1, <1>2, <1>5, <1>7, <1>8, StakesRejoined
<1>10. /\ requests \in Seq(WithdrawalRequest) /\ Len(requests) <= MaxRequests
  BY DEF InsuranceInv, InsuranceRecords
<1>11. /\ requests' \in Seq(WithdrawalRequest) /\ Len(requests') = Len(requests)
       /\ DOMAIN requests' = DOMAIN requests
       /\ requests'[k].claimed /\ requests'[k].staker = requests[k].staker
       /\ \A j \in DOMAIN requests : requests'[j].amount = requests[j].amount
       /\ \A j \in DOMAIN requests \ {k} : requests'[j] = requests[j]
  <2> DEFINE w == [requests[k] EXCEPT !.claimed = TRUE]
  <2>1. /\ w \in WithdrawalRequest /\ w.claimed /\ w.staker = requests[k].staker
        /\ w.amount = requests[k].amount
    BY <1>2 DEF WithdrawalRequest
  <2>2. requests' = [requests EXCEPT ![k] = w]
    BY <1>1
  <2> HIDE DEF w
  <2> QED
    BY <1>10, <2>1, <2>2
<1>12. QueueBooked'
  <2>1. ASSUME NEW a \in Account
        PROVE  positions'[a].pending = AmountsAt(requests', Insurance!Waiting(a)')
    <3> DEFINE S == Insurance!Waiting(a)
    <3>1. /\ S \subseteq DOMAIN requests /\ IsFiniteSet(S)
          /\ positions[a].pending = AmountsAt(requests, S)
      BY InsuranceRead DEF InsuranceInv, QueueBooked, Insurance!Waiting
    <3>2. \A j \in S : requests'[j].amount = requests[j].amount /\ requests[j].amount \in Int
      BY <1>11, <3>1, InsuranceRead DEF WithdrawalRequest
    <3>3. CASE a = who
      <4>1. Insurance!Waiting(a)' = S \ {k} /\ k \in S
        BY <1>1, <1>11, <3>3 DEF Insurance!Waiting
      <4>2. /\ AmountsAt(requests, S) = AmountsAt(requests', S \ {k}) + amount
            /\ AmountsAt(requests', S \ {k}) \in Int
        <5>1. PICK old, new : old = requests /\ new = requests'
          OBVIOUS
        <5>2. \A j \in S : new[j].amount = old[j].amount /\ old[j].amount \in Int
          BY <3>2, <5>1
        <5>3. PICK place \in S : place = k
          BY <4>1
        <5>4. IsFiniteSet(S)
          BY <3>1
        <5> HIDE DEF S, amount
        <5>5. /\ AmountsAt(old, S) = AmountsAt(new, S \ {place}) + old[place].amount
              /\ AmountsAt(new, S \ {place}) \in Int
          BY <5>2, <5>4, AmountTaken
        <5> QED
          BY <5>1, <5>3, <5>5 DEF amount
      <4> HIDE DEF S, amount, p
      <4> QED
        BY <1>3, <1>5, <1>9, <3>1, <3>3, <4>1, <4>2 DEF p
    <3>4. CASE a # who
      <4>1. Insurance!Waiting(a)' = S
        BY <1>1, <1>11, <3>4 DEF Insurance!Waiting
      <4>2. AmountsAt(requests', S) = AmountsAt(requests, S)
        <5> HIDE DEF S
        <5> QED
          BY <3>1, <3>2, AmountsKept
      <4> QED
        BY <1>9, <3>1, <3>4, <4>1, <4>2
    <3> QED
      BY <3>3, <3>4
  <2> QED
    BY <2>1 DEF QueueBooked, AmountsAt
<1>13. LiquidityBooked'
  BY <1>1, <1>2, <1>7, <1>8, LiquidityKept
<1>14. InsuranceSettings' /\ InsuranceRecords'
  BY <1>1, <1>10, <1>11 DEF InsuranceInv, InsuranceSettings, InsuranceGovernance,
     InsuranceRecords, WithdrawalRequest, InsuranceClaim, ClaimStatus
<1> QED
  BY <1>9, <1>12, <1>13, <1>14 DEF InsuranceInv

\* The premium of a tier is a number, and what it adds to the accumulator too.
LEMMA PremiumType ==
    ASSUME Insurance!InsuranceConstants, pool \in PoolRecord, NEW amount \in Nat,
           NEW tier \in Insurance!Tier
    PROVE  /\ Insurance!Premium(amount, tier) \in Nat
           /\ pool.staked > 0 =>
                 (Insurance!Premium(amount, tier) * RewardScale) \div pool.staked \in Nat
<1>1. Insurance!Bps \in Nat \ {0} /\ Insurance!PremiumMultiplier(tier) \in Nat
  BY DEF Insurance!Bps, Insurance!PremiumMultiplier, Insurance!Tier
<1>2. pool.rate \in Nat /\ pool.risk \in Nat /\ pool.staked \in Nat /\ RewardScale \in Nat
  BY DEF PoolRecord, Insurance!InsuranceConstants
<1>3. ASSUME NEW a \in Nat, NEW b \in Nat PROVE a * b \in Nat
  BY <1>3
<1> DEFINE base == (amount * pool.rate) \div Insurance!Bps
           raised == base * (Insurance!Bps + pool.risk) * Insurance!PremiumMultiplier(tier)
<1>4. base \in Nat
  BY <1>1, <1>2, <1>3, DivisionBounds
<1>5. raised \in Nat
  <2> HIDE DEF base
  <2>1. Insurance!Bps + pool.risk \in Nat
    BY <1>1, <1>2
  <2> QED
    BY <1>1, <1>3, <1>4, <2>1
<1>6. Insurance!Premium(amount, tier) \in Nat
  <2>1. Insurance!Premium(amount, tier) = (raised \div Insurance!Bps) \div Insurance!Bps
    BY DEF Insurance!Premium
  <2> HIDE DEF raised
  <2> QED
    BY <1>1, <1>5, <2>1, DivisionBounds
<1>7. Insurance!Premium(amount, tier) * RewardScale \in Nat
  BY <1>2, <1>3, <1>6
<1> QED
  BY <1>2, <1>6, <1>7, DivisionBounds

\* Coverage changes only what is covered, collected and accumulated.
LEMMA CoverageKeeps ==
    ASSUME Insurance!InsuranceConstants, InsuranceInv, NEW amount \in Coverages,
           NEW tier \in Insurance!Tier, Insurance!PurchaseCoverage(amount, tier)
    PROVE  InsuranceInv'
<1> DEFINE premium == Insurance!Premium(amount, tier)
           share == IF pool.staked > 0 THEN (premium * RewardScale) \div pool.staked ELSE 0
<1>1. /\ Insurance!Created /\ amount > 0 /\ amount \in Int
      /\ pool' = [pool EXCEPT !.coverage = pool.coverage + amount,
                              !.collected = pool.collected + premium, !.acc = pool.acc + share]
      /\ UNCHANGED <<now, governance, positions, claims, last_claim, requests>>
  BY DEF Insurance!PurchaseCoverage, Insurance!InsuranceConstants
<1>2. pool \in PoolRecord /\ amount \in Nat
  BY <1>1, PoolCreated
<1>3. premium \in Nat /\ share \in Nat
  BY <1>2, PremiumType
<1> HIDE DEF premium, share
<1>4. /\ pool' \in PoolRecord
      /\ pool'.staked = pool.staked /\ pool'.queued = pool.queued
      /\ pool'.total = pool.total /\ pool'.paid = pool.paid
      /\ pool'.rejected_claims = pool.rejected_claims
  <2>1. /\ pool.coverage + amount \in Nat /\ pool.collected + premium \in Nat
        /\ pool.acc + share \in Nat
    BY <1>2, <1>3 DEF PoolRecord
  <2> QED
    BY <1>1, <1>2, <2>1 DEF PoolRecord
<1>5. InsuranceSettings'
  BY <1>1 DEF InsuranceInv, InsuranceSettings, InsuranceGovernance
<1> QED
  BY <1>1, <1>4, <1>5, BooksKept

\* The claims of a status after a claim was replaced by one of the same amount.
LEMMA ClaimReplaced ==
    ASSUME InsuranceInv, NEW k \in DOMAIN claims, NEW c \in InsuranceClaim,
           claims' = [claims EXCEPT ![k] = c], c.amount = claims[k].amount
    PROVE  /\ claims' \in Seq(InsuranceClaim) /\ Len(claims') <= MaxClaims
           /\ DOMAIN claims' = DOMAIN claims
           /\ \A j \in DOMAIN claims : claims'[j].amount = claims[j].amount
           /\ \A s : Insurance!ClaimsIn(s)' = IF c.status = s THEN Insurance!ClaimsIn(s) \cup {k}
                                              ELSE Insurance!ClaimsIn(s) \ {k}
<1>1. claims \in Seq(InsuranceClaim) /\ Len(claims) <= MaxClaims
  BY DEF InsuranceInv, InsuranceRecords
<1>2. /\ claims' \in Seq(InsuranceClaim) /\ Len(claims') = Len(claims)
      /\ DOMAIN claims' = DOMAIN claims /\ claims'[k] = c
      /\ \A j \in DOMAIN claims \ {k} : claims'[j] = claims[j]
  BY <1>1
<1>3. ASSUME NEW s
      PROVE  Insurance!ClaimsIn(s)' = IF c.status = s THEN Insurance!ClaimsIn(s) \cup {k}
                                      ELSE Insurance!ClaimsIn(s) \ {k}
  BY <1>2 DEF Insurance!ClaimsIn
<1>4. \A j \in DOMAIN claims : claims'[j].amount = claims[j].amount
  BY <1>2
<1> QED
  BY <1>1, <1>2, <1>3, <1>4

\* Calls that move a claim between statuses other than paid and rejected.
LEMMA ClaimMoved ==
    ASSUME InsuranceInv, NEW k \in DOMAIN claims, NEW c \in InsuranceClaim,
           claims' = [claims EXCEPT ![k] = c], c.amount = claims[k].amount,
           c.status \notin {"Paid", "Rejected"}, claims[k].status \notin {"Paid", "Rejected"},
           UNCHANGED <<now, governance, pool, positions, last_claim, requests>>
    PROVE  InsuranceInv'
<1>1. /\ claims' \in Seq(InsuranceClaim) /\ Len(claims') <= MaxClaims
      /\ \A j \in DOMAIN claims : claims'[j].amount = claims[j].amount
      /\ \A s : Insurance!ClaimsIn(s)' = IF c.status = s THEN Insurance!ClaimsIn(s) \cup {k}
                                         ELSE Insurance!ClaimsIn(s) \ {k}
  BY ClaimReplaced
<1>2. ASSUME NEW s \in {"Paid", "Rejected"}
      PROVE  Insurance!ClaimsIn(s)' = Insurance!ClaimsIn(s)
  <2>1. c.status # s /\ k \notin Insurance!ClaimsIn(s)
    BY DEF Insurance!ClaimsIn
  <2> QED
    BY <1>1, <2>1
<1>3. AmountsAt(claims', Insurance!ClaimsIn("Paid")) = AmountsAt(claims, Insurance!ClaimsIn("Paid"))
  <2>1. /\ IsFiniteSet(Insurance!ClaimsIn("Paid"))
        /\ \A j \in Insurance!ClaimsIn("Paid") : claims'[j].amount = claims[j].amount
    BY <1>1, InsuranceRead DEF Insurance!ClaimsIn
  <2> QED
    BY <2>1, AmountsKept
<1>4. Insurance!Created
  BY DEF InsuranceInv, PoolSound
<1>5. Insurance!Created'
  BY <1>4 DEF Insurance!Created, Insurance!NoPool
<1>6. PoolSound' /\ StakesBooked'
  BY <1>4, <1>5, PoolCreated DEF PoolSound, PoolRecord, StakesBooked, StakedIn, PendingIn
<1>7. LiquidityBooked'
  BY <1>2, <1>3, <1>4, PoolCreated DEF LiquidityBooked, AmountsAt
<1>8. QueueBooked'
  BY QueueKept
<1>9. InsuranceSettings' /\ InsuranceRecords' /\ positions' \in [Account -> Position]
  BY <1>1 DEF InsuranceInv, InsuranceSettings, InsuranceGovernance, InsuranceRecords,
     WithdrawalRequest, InsuranceClaim, ClaimStatus, Position
<1> QED
  BY <1>6, <1>7, <1>8, <1>9 DEF InsuranceInv

\* A claim submitted, and one approved.
LEMMA SubmitKeeps ==
    ASSUME Insurance!InsuranceConstants, InsuranceInv, NEW who \in Account,
           NEW amount \in ClaimAmounts, Insurance!SubmitClaim(who, amount)
    PROVE  InsuranceInv'
<1> DEFINE c == [claimant |-> who, amount |-> amount, status |-> "Submitted", approvals |-> {},
                 slashed |-> 0]
<1>1. /\ Insurance!Created /\ amount > 0 /\ amount \in Int /\ Len(claims) < MaxClaims
      /\ last_claim' = [last_claim EXCEPT ![who] = now]
      /\ claims' = Append(claims, c)
      /\ UNCHANGED <<now, governance, pool, positions, requests>>
  BY DEF Insurance!SubmitClaim, Insurance!InsuranceConstants
<1>2. c \in InsuranceClaim /\ c.status = "Submitted"
  BY <1>1 DEF InsuranceClaim, ClaimStatus
<1> HIDE DEF c
<1>3. claims \in Seq(InsuranceClaim) /\ MaxClaims \in Nat /\ Len(claims) \in Nat
  BY DEF InsuranceInv, InsuranceRecords, Insurance!InsuranceConstants
<1>4. /\ claims' \in Seq(InsuranceClaim) /\ Len(claims') = Len(claims) + 1
      /\ \A k \in DOMAIN claims : claims'[k] = claims[k]
      /\ claims'[Len(claims) + 1] = c /\ Len(claims') <= MaxClaims
      /\ DOMAIN claims' = 1 .. Len(claims) + 1 /\ DOMAIN claims = 1 .. Len(claims)
  BY <1>1, <1>2, <1>3
<1>5. ASSUME NEW s \in {"Paid", "Rejected"}
      PROVE  Insurance!ClaimsIn(s)' = Insurance!ClaimsIn(s)
  <2>1. \A k : k \in 1 .. Len(claims) + 1 <=> k \in DOMAIN claims \/ k = Len(claims) + 1
    BY <1>3
  <2> QED
    BY <1>2, <1>4, <2>1 DEF Insurance!ClaimsIn
<1>6. AmountsAt(claims', Insurance!ClaimsIn("Paid")) = AmountsAt(claims, Insurance!ClaimsIn("Paid"))
  <2>1. /\ IsFiniteSet(Insurance!ClaimsIn("Paid"))
        /\ \A k \in Insurance!ClaimsIn("Paid") : claims'[k].amount = claims[k].amount
    BY <1>4, InsuranceRead DEF Insurance!ClaimsIn
  <2> QED
    BY <2>1, AmountsKept
<1>7. Insurance!Created'
  BY <1>1 DEF Insurance!Created, Insurance!NoPool
<1>8. PoolSound' /\ StakesBooked'
  BY <1>1, <1>7, PoolCreated DEF PoolSound, PoolRecord, StakesBooked, StakedIn, PendingIn
<1>9. LiquidityBooked'
  BY <1>1, <1>5, <1>6, PoolCreated DEF LiquidityBooked, AmountsAt
<1>10. QueueBooked'
  BY <1>1, QueueKept
<1>11. InsuranceSettings' /\ InsuranceRecords' /\ positions' \in [Account -> Position]
  BY <1>1, <1>4 DEF InsuranceInv, InsuranceSettings, InsuranceGovernance, InsuranceRecords,
     WithdrawalRequest, InsuranceClaim, ClaimStatus, Position
<1> QED
  BY <1>8, <1>9, <1>10, <1>11 DEF InsuranceInv

\* An approval keeps the invariant.
LEMMA ApproveClaimKeeps ==
    ASSUME Insurance!InsuranceConstants, InsuranceInv, NEW who \in Account,
           NEW k \in DOMAIN claims, Insurance!ApproveClaim(who, k)
    PROVE  InsuranceInv'
<1> DEFINE old == claims[k]
           status == IF Insurance!Cardinality(old.approvals) + 1 >= governance.threshold
                     THEN "Approved" ELSE old.status
           c == [old EXCEPT !.approvals = old.approvals \cup {who}, !.status = status]
<1>1. /\ old.status \in {"Verified", "Approved"}
      /\ claims' = [claims EXCEPT ![k].approvals = old.approvals \cup {who}, ![k].status = status]
      /\ UNCHANGED <<now, governance, pool, positions, last_claim, requests>>
  BY DEF Insurance!ApproveClaim
<1>2. old \in InsuranceClaim
  BY InsuranceRead
<1>3. status \in {"Verified", "Approved"}
  BY <1>1
<1>4. claims' = [claims EXCEPT ![k] = c]
  <2> HIDE DEF status
  <2> QED
    BY <1>1, <1>2 DEF InsuranceClaim
<1>5. c \in InsuranceClaim /\ c.status = status /\ c.amount = claims[k].amount
  <2> HIDE DEF status
  <2> QED
    BY <1>2, <1>3 DEF InsuranceClaim, ClaimStatus
<1> HIDE DEF c, status
<1> QED
  BY <1>1, <1>3, <1>4, <1>5, ClaimMoved, ZenonT(40)

\* Nobody has more at stake than the pool.
LEMMA StakeInPool ==
    ASSUME Insurance!InsuranceConstants, InsuranceInv, Insurance!Created, NEW who \in Account
    PROVE  positions[who].staked \in Nat /\ positions[who].staked <= pool.staked
<1> DEFINE f == [a \in Account |-> positions[a].staked]
<1>1. \A a \in Account : f[a] \in Nat
  BY DEF InsuranceInv, Position
<1>2. IsFiniteSet(Account)
  BY InsuranceCounts DEF Insurance!InsuranceConstants
<1>3. f[who] <= SumFunctionOnSet(f, Account)
  <2> HIDE DEF f
  <2> QED
    BY <1>1, <1>2, SumNatural
<1> QED
  BY <1>1, <1>3, PoolCreated DEF StakedIn

\* The lesser of two numbers.
LEMMA LesserOfTwo ==
    ASSUME NEW a \in Nat, NEW b \in Nat
    PROVE  Insurance!Min({a, b}) \in Nat /\ Insurance!Min({a, b}) <= b
<1>1. \E x \in {a, b} : \A y \in {a, b} : x <= y
  OBVIOUS
<1>2. /\ Insurance!Min({a, b}) \in {a, b}
      /\ \A y \in {a, b} : Insurance!Min({a, b}) <= y
  BY <1>1 DEF Insurance!Min
<1> QED
  BY <1>2

\* A claim verified, or rejected with a slash of the claimant.
LEMMA VerifyKeeps ==
    ASSUME Insurance!InsuranceConstants, InsuranceInv, NEW k \in DOMAIN claims,
           NEW valid \in BOOLEAN, NEW bps \in Slashes, Insurance!VerifyClaim(k, valid, bps)
    PROVE  InsuranceInv'
<1> DEFINE old == claims[k]
           who == old.claimant
<1>1. old \in InsuranceClaim /\ old.amount \in Nat /\ who \in Account /\ Insurance!Created
  BY InsuranceRead DEF InsuranceClaim, InsuranceInv, PoolSound
<1>2. old.status = "Submitted" /\ UNCHANGED <<now, governance, last_claim, requests>>
  BY DEF Insurance!VerifyClaim
<1>3. CASE valid
  <2> DEFINE c == [old EXCEPT !.status = "Verified"]
  <2>1. /\ claims' = [claims EXCEPT ![k].status = "Verified"]
        /\ UNCHANGED <<pool, positions>>
    BY <1>3 DEF Insurance!VerifyClaim
  <2>2. claims' = [claims EXCEPT ![k] = c]
    BY <2>1
  <2>3. c \in InsuranceClaim /\ c.status = "Verified" /\ c.amount = claims[k].amount
    BY <1>1 DEF InsuranceClaim, ClaimStatus
  <2> HIDE DEF c
  <2> QED
    BY <1>2, <2>1, <2>2, <2>3, ClaimMoved
<1>4. CASE ~valid
  <2> DEFINE part == (old.amount * bps) \div Insurance!Bps
             slashed == Insurance!Min({part, positions[who].staked})
             p == positions[who]
             s == Insurance!Restaked(p, -slashed)
             r == [s EXCEPT !.slashed = s.slashed + slashed]
             c == [old EXCEPT !.status = "Rejected", !.slashed = slashed]
  <2>1. /\ positions' = [positions EXCEPT ![who] = r]
        /\ pool' = [pool EXCEPT !.staked = pool.staked - slashed, !.total = pool.total - slashed,
                                !.rejected_claims = pool.rejected_claims + 1]
        /\ claims' = [claims EXCEPT ![k].status = "Rejected", ![k].slashed = slashed]
    BY <1>4 DEF Insurance!VerifyClaim
  <2>2. part \in Nat
    <3>1. old.amount * bps \in Nat /\ Insurance!Bps \in Nat \ {0}
      BY <1>1 DEF Insurance!InsuranceConstants, Insurance!Bps
    <3> QED
      BY <3>1, DivisionBounds
  <2>3. /\ pool \in PoolRecord /\ p \in Position
        /\ p.staked \in Nat /\ p.staked <= pool.staked
    BY <1>1, PoolCreated, StakeInPool DEF InsuranceInv
  <2>4. slashed \in Nat /\ slashed <= p.staked
    <3> HIDE DEF part
    <3> QED
      BY <2>2, <2>3, LesserOfTwo
  <2> HIDE DEF slashed
  <2>5. s \in Position /\ s.staked = p.staked - slashed /\ s.pending = p.pending
    <3>1. /\ -slashed \in Int /\ p.staked + (-slashed) >= 0
          /\ p.staked + (-slashed) = p.staked - slashed
      BY <2>3, <2>4
    <3> HIDE DEF p
    <3> QED
      BY <2>3, <3>1, RestakedType
  <2>6. r \in Position /\ r.staked = p.staked - slashed /\ r.pending = p.pending
    <3> HIDE DEF s, p
    <3>1. s.slashed + slashed \in Nat
      BY <2>4, <2>5 DEF Position
    <3> QED
      BY <2>5, <3>1 DEF Position
  <2> HIDE DEF r
  <2>7. claims' = [claims EXCEPT ![k] = c]
    BY <1>1, <2>1 DEF InsuranceClaim
  <2>8. c \in InsuranceClaim /\ c.status = "Rejected" /\ c.amount = claims[k].amount
    BY <1>1, <2>4 DEF InsuranceClaim, ClaimStatus
  <2> HIDE DEF c
  <2>9. /\ p.pending \in Nat /\ pool.staked \in Nat /\ pool.queued \in Nat
        /\ pool.total \in Int /\ pool.rejected_claims \in Nat /\ pool.paid \in Nat
    BY <2>3 DEF Position, PoolRecord
  <2>10. /\ pool' \in PoolRecord
         /\ pool'.staked = pool.staked - slashed /\ pool'.queued = pool.queued
         /\ pool'.total = pool.total - slashed /\ pool'.paid = pool.paid
         /\ pool'.rejected_claims = pool.rejected_claims + 1
    <3>1. /\ pool.staked - slashed \in Nat /\ pool.total - slashed \in Int
          /\ pool.rejected_claims + 1 \in Nat
      BY <2>3, <2>4, <2>9
    <3> QED
      BY <2>1, <2>3, <3>1 DEF PoolRecord
  <2>11. /\ pool'.staked = pool.staked + r.staked - positions[who].staked
         /\ pool'.queued = pool.queued + r.pending - positions[who].pending
    <3> HIDE DEF p, who
    <3> QED
      BY <2>3, <2>4, <2>6, <2>9, <2>10 DEF p
  <2>12. /\ PoolSound' /\ StakesBooked' /\ positions' \in [Account -> Position]
         /\ positions'[who] = r /\ \A a \in Account \ {who} : positions'[a] = positions[a]
    <3> HIDE DEF who
    <3> QED
      BY <1>1, <2>1, <2>6, <2>10, <2>11, StakesRejoined
  <2>13. QueueBooked'
    BY <1>2, <2>6, <2>12, QueueKept
  <2>14. /\ claims' \in Seq(InsuranceClaim) /\ Len(claims') <= MaxClaims
         /\ \A j \in DOMAIN claims : claims'[j].amount = claims[j].amount
         /\ \A t : Insurance!ClaimsIn(t)' = IF c.status = t THEN Insurance!ClaimsIn(t) \cup {k}
                                            ELSE Insurance!ClaimsIn(t) \ {k}
    BY <2>7, <2>8, ClaimReplaced
  <2>15. /\ k \notin Insurance!ClaimsIn("Paid") /\ k \notin Insurance!ClaimsIn("Rejected")
    BY <1>2 DEF Insurance!ClaimsIn
  <2>16. /\ Insurance!ClaimsIn("Paid")' = Insurance!ClaimsIn("Paid")
         /\ Insurance!ClaimsIn("Rejected")' = Insurance!ClaimsIn("Rejected") \cup {k}
    BY <2>8, <2>14, <2>15
  <2>17. Cardinality(Insurance!ClaimsIn("Rejected") \cup {k})
              = Cardinality(Insurance!ClaimsIn("Rejected")) + 1
    BY <2>15, InsuranceRead, FS_AddElement
  <2>18. AmountsAt(claims', Insurance!ClaimsIn("Paid"))
              = AmountsAt(claims, Insurance!ClaimsIn("Paid"))
    <3>1. /\ IsFiniteSet(Insurance!ClaimsIn("Paid"))
          /\ \A j \in Insurance!ClaimsIn("Paid") : claims'[j].amount = claims[j].amount
      BY <2>14, InsuranceRead DEF Insurance!ClaimsIn
    <3> QED
      BY <3>1, AmountsKept
  <2>19. LiquidityBooked'
    <3>1. /\ pool.total = pool.staked + pool.queued - pool.paid
          /\ pool.paid = AmountsAt(claims, Insurance!ClaimsIn("Paid"))
          /\ pool.rejected_claims = Cardinality(Insurance!ClaimsIn("Rejected"))
      BY <1>1, PoolCreated
    <3>2. pool'.total = pool'.staked + pool'.queued - pool'.paid
      BY <2>4, <2>9, <2>10, <3>1
    <3>3. pool'.paid = AmountsAt(claims', Insurance!ClaimsIn("Paid")')
      BY <2>10, <2>16, <2>18, <3>1
    <3>4. pool'.rejected_claims = Cardinality(Insurance!ClaimsIn("Rejected")')
      BY <2>10, <2>16, <2>17, <3>1
    <3> QED
      BY <3>2, <3>3, <3>4 DEF LiquidityBooked, AmountsAt
  <2>20. InsuranceSettings' /\ InsuranceRecords'
    BY <1>2, <2>14 DEF InsuranceInv, InsuranceSettings, InsuranceGovernance, InsuranceRecords,
       WithdrawalRequest, InsuranceClaim, ClaimStatus
  <2> QED
    BY <2>12, <2>13, <2>19, <2>20 DEF InsuranceInv
<1> QED
  BY <1>3, <1>4

\* A payment leaves the liquidity, the coverage and no position.
LEMMA PayoutKeeps ==
    ASSUME Insurance!InsuranceConstants, InsuranceInv, NEW k \in DOMAIN claims,
           Insurance!ExecutePayout(k)
    PROVE  InsuranceInv'
<1> DEFINE old == claims[k]
           amount == old.amount
           c == [old EXCEPT !.status = "Paid"]
           S == Insurance!ClaimsIn("Paid")
<1>1. /\ old \in InsuranceClaim /\ amount \in Nat /\ Insurance!Created /\ pool \in PoolRecord
  BY InsuranceRead, PoolCreated DEF InsuranceClaim, InsuranceInv, PoolSound
<1>2. /\ old.status = "Approved" /\ pool.total >= amount /\ pool.coverage >= amount
      /\ pool' = [pool EXCEPT !.total = pool.total - amount, !.coverage = pool.coverage - amount,
                              !.paid = pool.paid + amount, !.paid_claims = pool.paid_claims + 1]
      /\ claims' = [claims EXCEPT ![k].status = "Paid"]
      /\ UNCHANGED <<now, governance, positions, last_claim, requests>>
  BY DEF Insurance!ExecutePayout
<1>3. claims' = [claims EXCEPT ![k] = c]
  BY <1>2
<1>4. c \in InsuranceClaim /\ c.status = "Paid" /\ c.amount = claims[k].amount
  BY <1>1 DEF InsuranceClaim, ClaimStatus
<1> HIDE DEF c
<1>5. /\ pool.staked \in Nat /\ pool.queued \in Nat /\ pool.total \in Int /\ pool.paid \in Nat
      /\ pool.coverage \in Nat /\ pool.paid_claims \in Nat
  BY <1>1 DEF PoolRecord
<1>6. /\ pool' \in PoolRecord
      /\ pool'.staked = pool.staked /\ pool'.queued = pool.queued
      /\ pool'.total = pool.total - amount /\ pool'.paid = pool.paid + amount
      /\ pool'.rejected_claims = pool.rejected_claims
  <2>1. /\ pool.total - amount \in Int /\ pool.coverage - amount \in Nat
        /\ pool.paid + amount \in Nat /\ pool.paid_claims + 1 \in Nat
    BY <1>1, <1>2, <1>5
  <2> HIDE DEF amount
  <2> QED
    BY <1>1, <1>2, <2>1 DEF PoolRecord
<1>7. Insurance!Created'
  BY <1>6, RecordIsCreated
<1>8. PoolSound' /\ StakesBooked'
  BY <1>1, <1>2, <1>6, <1>7, PoolCreated DEF PoolSound, PoolRecord, StakesBooked, StakedIn,
     PendingIn
<1>9. /\ claims' \in Seq(InsuranceClaim) /\ Len(claims') <= MaxClaims
      /\ \A j \in DOMAIN claims : claims'[j].amount = claims[j].amount
      /\ \A t : Insurance!ClaimsIn(t)' = IF c.status = t THEN Insurance!ClaimsIn(t) \cup {k}
                                         ELSE Insurance!ClaimsIn(t) \ {k}
  BY <1>3, <1>4, ClaimReplaced
<1>10. k \notin S /\ k \notin Insurance!ClaimsIn("Rejected")
  BY <1>2 DEF Insurance!ClaimsIn
<1>11. /\ Insurance!ClaimsIn("Paid")' = S \cup {k}
       /\ Insurance!ClaimsIn("Rejected")' = Insurance!ClaimsIn("Rejected")
  BY <1>4, <1>9, <1>10
<1>12. AmountsAt(claims', S \cup {k}) = AmountsAt(claims, S) + amount
  <2>1. PICK before, after, place : before = claims /\ after = claims' /\ place = k
    OBVIOUS
  <2>2. \A j \in S : after[j].amount = before[j].amount /\ before[j].amount \in Int
    BY <1>9, <2>1, InsuranceRead DEF InsuranceClaim, Insurance!ClaimsIn
  <2>3. after[place].amount = amount /\ after[place].amount \in Int
    BY <1>1, <1>9, <2>1
  <2>4. IsFiniteSet(S) /\ place \notin S
    BY <1>10, <2>1, InsuranceRead
  <2> HIDE DEF S, amount
  <2>5. AmountsAt(after, S \cup {place}) = AmountsAt(before, S) + after[place].amount
    BY <2>2, <2>3, <2>4, AmountAdded
  <2> QED
    BY <2>1, <2>3, <2>5
<1>13. LiquidityBooked'
  <2>1. /\ pool.total = pool.staked + pool.queued - pool.paid
        /\ pool.paid = AmountsAt(claims, S)
        /\ pool.rejected_claims = Cardinality(Insurance!ClaimsIn("Rejected"))
    BY <1>1, PoolCreated
  <2> HIDE DEF S, amount
  <2>2. pool'.total = pool'.staked + pool'.queued - pool'.paid
    BY <1>1, <1>5, <1>6, <2>1
  <2>3. pool'.paid = AmountsAt(claims', Insurance!ClaimsIn("Paid")')
    BY <1>6, <1>11, <1>12, <2>1
  <2>4. pool'.rejected_claims = Cardinality(Insurance!ClaimsIn("Rejected")')
    BY <1>6, <1>11, <2>1
  <2> QED
    BY <2>2, <2>3, <2>4 DEF LiquidityBooked, AmountsAt
<1>14. QueueBooked'
  BY <1>2, QueueKept
<1>15. InsuranceSettings' /\ InsuranceRecords' /\ positions' \in [Account -> Position]
  BY <1>2, <1>9 DEF InsuranceInv, InsuranceSettings, InsuranceGovernance, InsuranceRecords,
     WithdrawalRequest, InsuranceClaim, ClaimStatus, Position
<1> QED
  BY <1>8, <1>13, <1>14, <1>15 DEF InsuranceInv

\* Every step keeps the invariant.
LEMMA NextInsurance ==
    ASSUME Insurance!InsuranceConstants, InsuranceInv, [Insurance!Next]_(Insurance!vars)
    PROVE  InsuranceInv'
<1>1. CASE \/ \E g \in Approvals : Insurance!ConfigureGovernance(g)
           \/ \E risk \in Risks : Insurance!SetRiskScore(risk)
           \/ \E limits \in Limits : Insurance!ConfigureClaimLimits(limits)
           \/ Insurance!Tick
           \/ UNCHANGED Insurance!vars
  BY <1>1, SettingsKeep
<1>2. CASE \E rate \in Rates, risk \in Risks : Insurance!CreatePool(rate, risk)
  BY <1>2, CreateKeeps
<1>3. CASE \E who \in Account, amount \in Stakes : Insurance!StakeLiquidity(who, amount)
  BY <1>3, StakeKeeps
<1>4. CASE \E who \in Account, amount \in Stakes : Insurance!RequestWithdrawal(who, amount)
  BY <1>4, RequestKept
<1>5. CASE \E who \in Account, k \in DOMAIN requests : Insurance!ExecuteWithdrawal(who, k)
  BY <1>5, WithdrawKeeps
<1>6. CASE \E who \in Account : Insurance!ClaimPremium(who)
  BY <1>6, PremiumKeeps
<1>7. CASE \E who \in Account, amount \in ClaimAmounts : Insurance!SubmitClaim(who, amount)
  BY <1>7, SubmitKeeps
<1>8. CASE \E who \in Account, k \in DOMAIN claims : Insurance!ApproveClaim(who, k)
  BY <1>8, ApproveClaimKeeps
<1>9. CASE \E amount \in Coverages, tier \in Insurance!Tier : Insurance!PurchaseCoverage(amount, tier)
  BY <1>9, CoverageKeeps
<1>10. CASE \E k \in DOMAIN claims, valid \in BOOLEAN, bps \in Slashes :
               Insurance!VerifyClaim(k, valid, bps)
  BY <1>10, VerifyKeeps
<1>11. CASE \E k \in DOMAIN claims : Insurance!ExecutePayout(k)
  BY <1>11, PayoutKeeps
<1> QED
  BY <1>1, <1>2, <1>3, <1>4, <1>5, <1>6, <1>7, <1>8, <1>9, <1>10, <1>11 DEF Insurance!Next

\* The invariant holds in every state the pool reaches.
LEMMA InsuranceInvariant ==
    ASSUME Insurance!InsuranceConstants
    PROVE  Insurance!Spec => []InsuranceInv
<1>1. Insurance!Init => InsuranceInv
  BY InitInsurance
<1>2. InsuranceInv /\ [Insurance!Next]_(Insurance!vars) => InsuranceInv'
  BY NextInsurance
<1> QED
  BY <1>1, <1>2, PTL DEF Insurance!Spec

\* Every variable of the insurance pool holds values of its type, and its books agree with
\* those of its stakers, requests and claims after any sequence of stakes, withdrawals,
\* slashes and payments.
THEOREM PoolBooksBalance ==
    ASSUME Insurance!InsuranceConstants
    PROVE  Insurance!Spec => [](Insurance!TypeOK /\ Insurance!PoolBooks)
<1>1. InsuranceInv => Insurance!TypeOK /\ Insurance!PoolBooks
  BY InsuranceChecked
<1> QED
  BY <1>1, InsuranceInvariant, PTL

\* What a step may add to the earnings of a staker.
EarnsFairly(who) ==
    LET share == positions[who].staked * (pool'.acc - pool.acc)
    IN  /\ Insurance!Earned(who)' >= Insurance!Earned(who)
        /\ Insurance!Earned(who)' <=
              Insurance!Earned(who) + (share + RewardScale - 1) \div RewardScale

\* The numbers that earnings are made of.
LEMMA EarnedNumbers ==
    ASSUME Insurance!InsuranceConstants, InsuranceInv, Insurance!Created, NEW who \in Account
    PROVE  /\ positions[who] \in Position /\ pool \in PoolRecord
           /\ positions[who].staked \in Nat /\ positions[who].claimed \in Nat
           /\ positions[who].accrued \in Nat /\ positions[who].reward_debt \in Nat
           /\ pool.acc \in Nat /\ RewardScale \in Nat \ {0}
           /\ positions[who].staked * pool.acc \in Nat
           /\ Insurance!RewardDebt(positions[who].staked) \in Nat
           /\ Insurance!Pending(positions[who]) \in Nat
<1>1. /\ positions[who] \in Position /\ pool \in PoolRecord /\ RewardScale \in Nat \ {0}
  BY PoolCreated DEF InsuranceInv, Insurance!InsuranceConstants
<1>2. /\ positions[who].staked \in Nat /\ positions[who].claimed \in Nat
      /\ positions[who].accrued \in Nat /\ positions[who].reward_debt \in Nat /\ pool.acc \in Nat
  BY <1>1 DEF Position, PoolRecord
<1>3. positions[who].staked * pool.acc \in Nat
  BY <1>2
<1>4. Insurance!RewardDebt(positions[who].staked) \in Nat
  BY <1>1, <1>3, DivisionBounds DEF Insurance!RewardDebt
<1>5. Insurance!Pending(positions[who]) \in Nat
  BY <1>2, <1>4 DEF Insurance!Pending
<1> QED
  BY <1>1, <1>2, <1>3, <1>4, <1>5

\* A call that leaves the accumulator alone neither adds to what a staker has earned nor
\* loses any of it: a position that changes is one whose debt is set anew.
LEMMA EarnedKept ==
    ASSUME Insurance!InsuranceConstants, InsuranceInv, InsuranceInv', Insurance!Created,
           Insurance!Created', pool'.acc = pool.acc, NEW who \in Account,
           \/ positions'[who] = positions[who]
           \/ /\ positions'[who].reward_debt =
                     (positions'[who].staked * pool.acc) \div RewardScale
              /\ positions'[who].claimed + positions'[who].accrued =
                     positions[who].claimed + positions[who].accrued
                         + Insurance!Pending(positions[who])
    PROVE  EarnsFairly(who)
<1>1. /\ positions[who].staked \in Nat /\ positions[who].claimed \in Nat
      /\ positions[who].accrued \in Nat /\ pool.acc \in Nat /\ RewardScale \in Nat \ {0}
      /\ Insurance!Pending(positions[who]) \in Nat /\ positions[who].reward_debt \in Nat
      /\ Insurance!Earned(who) \in Nat
  BY EarnedNumbers DEF Insurance!Earned
<1>2. Insurance!Earned(who)' = Insurance!Earned(who)
  <2>1. CASE positions'[who] = positions[who]
    BY <2>1 DEF Insurance!Earned, Insurance!Pending, Insurance!RewardDebt
  <2>2. CASE /\ positions'[who].reward_debt =
                     (positions'[who].staked * pool.acc) \div RewardScale
             /\ positions'[who].claimed + positions'[who].accrued =
                     positions[who].claimed + positions[who].accrued
                         + Insurance!Pending(positions[who])
    <3>1. positions' \in [Account -> Position]
      BY DEF InsuranceInv, Position
    <3>2. /\ positions'[who].claimed \in Nat /\ positions'[who].accrued \in Nat
          /\ positions'[who].reward_debt \in Nat
      BY <3>1 DEF Position
    <3>3. Insurance!Pending(positions[who])' = 0
      BY <2>2, <3>2 DEF Insurance!Pending, Insurance!RewardDebt
    <3> QED
      BY <1>1, <2>2, <3>2, <3>3 DEF Insurance!Earned
  <2> QED
    BY <2>1, <2>2
<1>3. positions[who].staked * (pool'.acc - pool.acc) = 0
  BY <1>1
<1>4. (0 + RewardScale - 1) \div RewardScale \in Nat
  <2>1. 0 + RewardScale - 1 \in Nat
    BY <1>1
  <2> QED
    BY <1>1, <2>1, DivisionBounds
<1> QED
  BY <1>1, <1>2, <1>3, <1>4 DEF EarnsFairly

\* A premium adds to each no more than the share of the stake, rounded up.
LEMMA EarnedByPremium ==
    ASSUME Insurance!InsuranceConstants, InsuranceInv, Insurance!Created, NEW who \in Account,
           positions' = positions, NEW more \in Nat, pool'.acc = pool.acc + more
    PROVE  EarnsFairly(who)
<1> DEFINE p == positions[who]
           n == p.staked * pool.acc
           m == p.staked * more
<1>1. /\ p.staked \in Nat /\ p.claimed \in Nat /\ p.accrued \in Nat /\ pool.acc \in Nat
      /\ RewardScale \in Nat \ {0} /\ p.reward_debt \in Nat /\ n \in Nat
  BY EarnedNumbers
<1>2. m \in Nat
  BY <1>1
<1>3. p.staked * pool'.acc = n + m /\ p.staked * (pool'.acc - pool.acc) = m
  <2>1. pool'.acc - pool.acc = more
    BY <1>1
  <2> QED
    BY <1>1, <2>1
<1>4. /\ n \div RewardScale <= (n + m) \div RewardScale
      /\ (n + m) \div RewardScale <= n \div RewardScale + (m + RewardScale - 1) \div RewardScale
  <2> HIDE DEF n, m
  <2> QED
    BY <1>1, <1>2, QuotientGrows
<1> DEFINE q == n \div RewardScale
           r == (n + m) \div RewardScale
           u == (m + RewardScale - 1) \div RewardScale
<1>5. q \in Nat /\ r \in Nat /\ u \in Nat
  <2>1. n \in Nat /\ m \in Nat /\ RewardScale \in Nat \ {0}
    BY <1>1, <1>2
  <2> HIDE DEF n, m
  <2>2. n + m \in Nat /\ m + RewardScale - 1 \in Nat
    BY ONLY <2>1
  <2> QED
    BY <2>1, <2>2, DivisionBounds
<1>6. Insurance!Pending(p) = IF q - p.reward_debt > 0 THEN q - p.reward_debt ELSE 0
  BY DEF Insurance!Pending, Insurance!RewardDebt
<1>7. Insurance!Pending(p)' = IF r - p.reward_debt > 0 THEN r - p.reward_debt ELSE 0
  BY <1>3 DEF Insurance!Pending, Insurance!RewardDebt
<1>8. q <= r /\ r <= q + u
  BY <1>4
<1>9. /\ Insurance!Earned(who) = p.claimed + p.accrued + Insurance!Pending(p)
      /\ Insurance!Earned(who)' = p.claimed + p.accrued + Insurance!Pending(p)'
  BY DEF Insurance!Earned
<1>10. EarnsFairly(who) <=> /\ Insurance!Earned(who)' >= Insurance!Earned(who)
                            /\ Insurance!Earned(who)' <= Insurance!Earned(who) + u
  BY <1>3 DEF EarnsFairly
<1> HIDE DEF q, r, u, n, m
<1>11. /\ p.claimed + p.accrued + (IF r - p.reward_debt > 0 THEN r - p.reward_debt ELSE 0)
              >= p.claimed + p.accrued + (IF q - p.reward_debt > 0 THEN q - p.reward_debt ELSE 0)
       /\ p.claimed + p.accrued + (IF r - p.reward_debt > 0 THEN r - p.reward_debt ELSE 0)
              <= p.claimed + p.accrued + (IF q - p.reward_debt > 0 THEN q - p.reward_debt ELSE 0)
                     + u
  <2> HIDE DEF p
  <2> QED
    BY <1>1, <1>5, <1>8
<1> QED
  BY <1>6, <1>7, <1>9, <1>10, <1>11

\* A call that changes one position, the debt set anew and the earnings kept.
LEMMA EarnedMoved ==
    ASSUME Insurance!InsuranceConstants, InsuranceInv, InsuranceInv', Insurance!Created,
           Insurance!Created', pool'.acc = pool.acc, NEW actor \in Account, NEW amount \in Int,
           positions[actor].staked + amount >= 0, NEW s, NEW r,
           s = Insurance!Restaked(positions[actor], amount),
           positions' = [positions EXCEPT ![actor] = r],
           r.staked = s.staked, r.reward_debt = s.reward_debt,
           r.claimed + r.accrued = s.claimed + s.accrued, NEW who \in Account
    PROVE  EarnsFairly(who)
<1>1. positions[actor] \in Position /\ pool \in PoolRecord /\ positions \in [Account -> Position]
  BY EarnedNumbers DEF InsuranceInv
<1>2. /\ s.staked = positions[actor].staked + amount
      /\ s.claimed = positions[actor].claimed
      /\ s.accrued = positions[actor].accrued + Insurance!Pending(positions[actor])
      /\ s.reward_debt = Insurance!RewardDebt(positions[actor].staked + amount)
      /\ Insurance!Pending(positions[actor]) \in Nat
  <2> PICK p \in Position : p = positions[actor]
    BY <1>1
  <2> QED
    BY <1>1, RestakedType
<1>3. CASE who # actor
  <2>1. positions'[who] = positions[who]
    BY <1>1, <1>3
  <2> QED
    BY <2>1, EarnedKept
<1>4. CASE who = actor
  <2>1. positions'[who] = r
    BY <1>1, <1>4
  <2>2. r.reward_debt = (r.staked * pool.acc) \div RewardScale
    BY <1>2 DEF Insurance!RewardDebt
  <2>3. r.claimed + r.accrued = positions[who].claimed + positions[who].accrued
                                    + Insurance!Pending(positions[who])
    <3>1. positions[who].claimed \in Nat /\ positions[who].accrued \in Nat
      BY EarnedNumbers
    <3> QED
      BY <1>2, <1>4, <3>1
  <2> QED
    BY <2>1, <2>2, <2>3, EarnedKept
<1> QED
  BY <1>3, <1>4

\* The pool of a call that leaves the accumulator alone exists on.
LEMMA AccumulatorKept ==
    ASSUME InsuranceInv, InsuranceInv', Insurance!Created,
           \/ UNCHANGED pool
           \/ \E f : pool' = [pool EXCEPT !.risk = f]
           \/ \E f : pool' = [pool EXCEPT !.limits = f]
           \/ \E f, g : pool' = [pool EXCEPT !.rate = f, !.risk = g]
           \/ \E f, g : pool' = [pool EXCEPT !.total = f, !.staked = g]
           \/ \E f, g : pool' = [pool EXCEPT !.total = f, !.queued = g]
           \/ \E f, g : pool' = [pool EXCEPT !.staked = f, !.queued = g]
           \/ \E f, g, h : pool' = [pool EXCEPT !.staked = f, !.total = g, !.rejected_claims = h]
           \/ \E f, g, h, i : pool' = [pool EXCEPT !.total = f, !.coverage = g, !.paid = h,
                                                   !.paid_claims = i]
    PROVE  pool'.acc = pool.acc /\ Insurance!Created'
<1>1. pool \in PoolRecord
  BY PoolCreated
<1>2. pool'.acc = pool.acc /\ DOMAIN pool' = DOMAIN pool
  BY <1>1 DEF PoolRecord
<1>3. "acc" \in DOMAIN pool
  BY <1>1 DEF PoolRecord
<1>4. "acc" \notin DOMAIN Insurance!NoPool
  BY DEF Insurance!NoPool
<1>5. Insurance!Created'
  BY <1>2, <1>3, <1>4 DEF Insurance!Created, Insurance!NoPool
<1> QED
  BY <1>2, <1>5

\* No step but a premium adds to what a staker has earned, and none loses any of it.
LEMMA EarnedStep ==
    ASSUME Insurance!InsuranceConstants, InsuranceInv, InsuranceInv', Insurance!Created,
           [Insurance!Next]_(Insurance!vars), NEW who \in Account
    PROVE  EarnsFairly(who)
<1>1. CASE \/ \E g \in Approvals : Insurance!ConfigureGovernance(g)
           \/ \E rate \in Rates, risk \in Risks : Insurance!CreatePool(rate, risk)
           \/ \E risk \in Risks : Insurance!SetRiskScore(risk)
           \/ \E limits \in Limits : Insurance!ConfigureClaimLimits(limits)
           \/ \E a \in Account, amount \in ClaimAmounts : Insurance!SubmitClaim(a, amount)
           \/ \E a \in Account, k \in DOMAIN claims : Insurance!ApproveClaim(a, k)
           \/ \E k \in DOMAIN claims : Insurance!ExecutePayout(k)
           \/ Insurance!Tick
           \/ UNCHANGED Insurance!vars
  <2>1. positions' = positions /\ pool'.acc = pool.acc /\ Insurance!Created'
    <3>1. ASSUME NEW g \in Approvals, Insurance!ConfigureGovernance(g)
          PROVE  positions' = positions /\ UNCHANGED pool
      BY <3>1 DEF Insurance!ConfigureGovernance
    <3>2. ASSUME NEW rate \in Rates, NEW risk \in Risks, Insurance!CreatePool(rate, risk)
          PROVE  positions' = positions /\ \E f, g : pool' = [pool EXCEPT !.rate = f, !.risk = g]
      <4>1. positions' = positions /\ pool' = [pool EXCEPT !.rate = rate, !.risk = risk]
        BY <3>2 DEF Insurance!CreatePool
      <4> QED
        BY <4>1, Zenon
    <3>3. ASSUME NEW risk \in Risks, Insurance!SetRiskScore(risk)
          PROVE  positions' = positions /\ \E f : pool' = [pool EXCEPT !.risk = f]
      BY <3>3 DEF Insurance!SetRiskScore
    <3>4. ASSUME NEW limits \in Limits, Insurance!ConfigureClaimLimits(limits)
          PROVE  positions' = positions /\ \E f : pool' = [pool EXCEPT !.limits = f]
      BY <3>4 DEF Insurance!ConfigureClaimLimits
    <3>5. ASSUME NEW a \in Account, NEW amount \in ClaimAmounts, Insurance!SubmitClaim(a, amount)
          PROVE  positions' = positions /\ UNCHANGED pool
      BY <3>5 DEF Insurance!SubmitClaim
    <3>6. ASSUME NEW a \in Account, NEW k \in DOMAIN claims, Insurance!ApproveClaim(a, k)
          PROVE  positions' = positions /\ UNCHANGED pool
      BY <3>6 DEF Insurance!ApproveClaim
    <3>7. ASSUME NEW k \in DOMAIN claims, Insurance!ExecutePayout(k)
          PROVE  /\ positions' = positions
                 /\ \E f, g, h, i : pool' = [pool EXCEPT !.total = f, !.coverage = g,
                                                         !.paid = h, !.paid_claims = i]
      BY <3>7 DEF Insurance!ExecutePayout
    <3>8. ASSUME Insurance!Tick \/ UNCHANGED Insurance!vars
          PROVE  positions' = positions /\ UNCHANGED pool
      BY <3>8 DEF Insurance!Tick, Insurance!vars, Insurance!poolVars
    <3>9. positions' = positions
      BY <1>1, <3>1, <3>2, <3>3, <3>4, <3>5, <3>6, <3>7, <3>8
    <3>10. \/ UNCHANGED pool
           \/ \E f : pool' = [pool EXCEPT !.risk = f]
           \/ \E f : pool' = [pool EXCEPT !.limits = f]
           \/ \E f, g : pool' = [pool EXCEPT !.rate = f, !.risk = g]
           \/ \E f, g, h, i : pool' = [pool EXCEPT !.total = f, !.coverage = g, !.paid = h,
                                                   !.paid_claims = i]
      BY <1>1, <3>1, <3>2, <3>3, <3>4, <3>5, <3>6, <3>7, <3>8, Zenon
    <3> QED
      BY <3>9, <3>10, AccumulatorKept
  <2> QED
    BY <2>1, EarnedKept
<1>2. CASE \E actor \in Account, amount \in Stakes : Insurance!StakeLiquidity(actor, amount)
  <2>1. PICK actor \in Account, amount \in Stakes : Insurance!StakeLiquidity(actor, amount)
    BY <1>2
  <2>2. PICK s : s = Insurance!Restaked(positions[actor], amount)
    OBVIOUS
  <2>3. /\ amount > 0 /\ amount \in Int
        /\ positions' = [positions EXCEPT ![actor] = s]
        /\ pool' = [pool EXCEPT !.total = pool.total + amount, !.staked = pool.staked + amount]
    BY <2>1, <2>2 DEF Insurance!StakeLiquidity, Insurance!InsuranceConstants
  <2>4. pool'.acc = pool.acc /\ Insurance!Created'
    BY <2>3, AccumulatorKept
  <2>5. positions[actor].staked + amount >= 0
    BY <2>3, EarnedNumbers
  <2> QED
    BY <2>2, <2>3, <2>4, <2>5, EarnedMoved
<1>3. CASE \E actor \in Account, amount \in Stakes : Insurance!RequestWithdrawal(actor, amount)
  <2>1. PICK actor \in Account, amount \in Stakes : Insurance!RequestWithdrawal(actor, amount)
    BY <1>3
  <2>2. PICK s : s = Insurance!Restaked(positions[actor], -amount)
    OBVIOUS
  <2>3. PICK r : r = [s EXCEPT !.pending = s.pending + amount]
    OBVIOUS
  <2>4. /\ amount > 0 /\ amount \in Int /\ positions[actor].staked >= amount
        /\ positions' = [positions EXCEPT ![actor] = r]
        /\ pool' = [pool EXCEPT !.staked = pool.staked - amount, !.queued = pool.queued + amount]
    BY <2>1, <2>2, <2>3 DEF Insurance!RequestWithdrawal, Insurance!InsuranceConstants
  <2>5. pool'.acc = pool.acc /\ Insurance!Created'
    BY <2>4, AccumulatorKept
  <2>6. -amount \in Int /\ positions[actor].staked + (-amount) >= 0
    BY <2>4, EarnedNumbers
  <2>7. s \in Position
    BY <2>2, <2>6, EarnedNumbers, RestakedType
  <2>8. r.staked = s.staked /\ r.reward_debt = s.reward_debt
        /\ r.claimed + r.accrued = s.claimed + s.accrued
    BY <2>3, <2>7 DEF Position
  <2> QED
    BY <2>2, <2>4, <2>5, <2>6, <2>8, EarnedMoved
<1>4. CASE \E actor \in Account, k \in DOMAIN requests : Insurance!ExecuteWithdrawal(actor, k)
  <2>1. PICK actor \in Account, k \in DOMAIN requests : Insurance!ExecuteWithdrawal(actor, k)
    BY <1>4
  <2>2. PICK s : s = Insurance!Restaked(positions[actor], 0)
    OBVIOUS
  <2>3. PICK r : r = [s EXCEPT !.pending = s.pending - requests[k].amount]
    OBVIOUS
  <2>4. /\ positions' = [positions EXCEPT ![actor] = r]
        /\ pool' = [pool EXCEPT !.total = pool.total - requests[k].amount,
                                !.queued = pool.queued - requests[k].amount]
    BY <2>1, <2>2, <2>3 DEF Insurance!ExecuteWithdrawal
  <2>5. pool'.acc = pool.acc /\ Insurance!Created'
    BY <2>4, AccumulatorKept
  <2>6. 0 \in Int /\ positions[actor].staked + 0 >= 0
    BY EarnedNumbers
  <2>7. s \in Position
    BY <2>2, <2>6, EarnedNumbers, RestakedType
  <2>8. r.staked = s.staked /\ r.reward_debt = s.reward_debt
        /\ r.claimed + r.accrued = s.claimed + s.accrued
    BY <2>3, <2>7 DEF Position
  <2> QED
    BY <2>2, <2>4, <2>5, <2>6, <2>8, EarnedMoved
<1>5. CASE \E actor \in Account : Insurance!ClaimPremium(actor)
  <2>1. PICK actor \in Account : Insurance!ClaimPremium(actor)
    BY <1>5
  <2>2. PICK s : s = Insurance!Restaked(positions[actor], 0)
    OBVIOUS
  <2>3. PICK r : r = [s EXCEPT !.accrued = 0, !.claimed = s.claimed + s.accrued]
    OBVIOUS
  <2>4. positions' = [positions EXCEPT ![actor] = r] /\ pool' = pool
    BY <2>1, <2>2, <2>3 DEF Insurance!ClaimPremium
  <2>5. pool'.acc = pool.acc /\ Insurance!Created'
    BY <2>4, AccumulatorKept
  <2>6. 0 \in Int /\ positions[actor].staked + 0 >= 0
    BY EarnedNumbers
  <2>7. s \in Position
    BY <2>2, <2>6, EarnedNumbers, RestakedType
  <2>8. r.staked = s.staked /\ r.reward_debt = s.reward_debt
        /\ r.claimed + r.accrued = s.claimed + s.accrued
    <3>1. s.claimed \in Nat /\ s.accrued \in Nat
      BY <2>7 DEF Position
    <3>2. /\ r.staked = s.staked /\ r.reward_debt = s.reward_debt
          /\ r.claimed = s.claimed + s.accrued /\ r.accrued = 0
      BY <2>3, <2>7 DEF Position
    <3> QED
      BY <3>1, <3>2
  <2> QED
    BY <2>2, <2>4, <2>5, <2>6, <2>8, EarnedMoved
<1>6. CASE \E amount \in Coverages, tier \in Insurance!Tier : Insurance!PurchaseCoverage(amount, tier)
  <2>1. PICK amount \in Coverages, tier \in Insurance!Tier : Insurance!PurchaseCoverage(amount, tier)
    BY <1>6
  <2> DEFINE premium == Insurance!Premium(amount, tier)
             more == IF pool.staked > 0 THEN (premium * RewardScale) \div pool.staked ELSE 0
  <2>2. /\ amount \in Nat /\ positions' = positions
        /\ pool' = [pool EXCEPT !.coverage = pool.coverage + amount,
                                !.collected = pool.collected + premium, !.acc = pool.acc + more]
    BY <2>1 DEF Insurance!PurchaseCoverage, Insurance!InsuranceConstants
  <2>3. more \in Nat /\ pool \in PoolRecord
    BY <2>2, PremiumType, EarnedNumbers
  <2> HIDE DEF premium, more
  <2>4. pool'.acc = pool.acc + more
    BY <2>2, <2>3 DEF PoolRecord
  <2> QED
    BY <2>2, <2>3, <2>4, EarnedByPremium
<1>7. CASE \E k \in DOMAIN claims, valid \in BOOLEAN, bps \in Slashes :
              Insurance!VerifyClaim(k, valid, bps)
  <2>1. PICK k \in DOMAIN claims, valid \in BOOLEAN, bps \in Slashes :
                Insurance!VerifyClaim(k, valid, bps)
    BY <1>7
  <2>2. CASE valid
    <3>1. positions' = positions /\ pool' = pool
      BY <2>1, <2>2 DEF Insurance!VerifyClaim
    <3>2. pool'.acc = pool.acc /\ Insurance!Created'
      BY <3>1, AccumulatorKept
    <3> QED
      BY <3>1, <3>2, EarnedKept
  <2>3. CASE ~valid
    <3> DEFINE part == (claims[k].amount * bps) \div Insurance!Bps
    <3>1. PICK actor : actor = claims[k].claimant
      OBVIOUS
    <3>2. actor \in Account /\ claims[k].amount \in Nat
      BY <3>1, InsuranceRead DEF InsuranceClaim
    <3>3. PICK slashed : slashed = Insurance!Min({part, positions[actor].staked})
      OBVIOUS
    <3>4. slashed \in Nat /\ slashed <= positions[actor].staked
      <4>1. part \in Nat
        <5>1. claims[k].amount * bps \in Nat /\ Insurance!Bps \in Nat \ {0}
          BY <3>2 DEF Insurance!InsuranceConstants, Insurance!Bps
        <5> QED
          BY <5>1, DivisionBounds
      <4>2. positions[actor].staked \in Nat
        BY <3>2, EarnedNumbers
      <4> HIDE DEF part
      <4> QED
        BY <3>3, <4>1, <4>2, LesserOfTwo
    <3>5. PICK s : s = Insurance!Restaked(positions[actor], -slashed)
      OBVIOUS
    <3>6. PICK r : r = [s EXCEPT !.slashed = s.slashed + slashed]
      OBVIOUS
    <3>7. /\ positions' = [positions EXCEPT ![actor] = r]
          /\ pool' = [pool EXCEPT !.staked = pool.staked - slashed,
                                  !.total = pool.total - slashed,
                                  !.rejected_claims = pool.rejected_claims + 1]
      BY <2>1, <2>3, <3>1, <3>3, <3>5, <3>6 DEF Insurance!VerifyClaim
    <3> HIDE DEF part
    <3>8. pool'.acc = pool.acc /\ Insurance!Created'
      BY <3>7, AccumulatorKept
    <3>9. -slashed \in Int /\ positions[actor].staked + (-slashed) >= 0
      BY <3>2, <3>4, EarnedNumbers
    <3>10. s \in Position
      BY <3>2, <3>5, <3>9, EarnedNumbers, RestakedType
    <3>11. r.staked = s.staked /\ r.reward_debt = s.reward_debt
           /\ r.claimed + r.accrued = s.claimed + s.accrued
      BY <3>6, <3>10 DEF Position
    <3> QED
      BY <3>2, <3>5, <3>7, <3>8, <3>9, <3>11, EarnedMoved
  <2> QED
    BY <2>2, <2>3
<1> QED
  BY <1>1, <1>2, <1>3, <1>4, <1>5, <1>6, <1>7 DEF Insurance!Next

\* Nobody's stake, withdrawal, slash or claim of premiums changes what any staker has
\* earned; a premium adds to each at most the share of the stake, rounded up.
THEOREM PremiumsSharedFairly ==
    ASSUME Insurance!InsuranceConstants
    PROVE  Insurance!Spec => Insurance!EarnedFromPremiums
<1>1. InsuranceInv /\ InsuranceInv' /\ [Insurance!Next]_(Insurance!vars) =>
          [Insurance!Created => \A who \in Account :
              LET share == positions[who].staked * (pool'.acc - pool.acc)
              IN  /\ Insurance!Earned(who)' >= Insurance!Earned(who)
                  /\ Insurance!Earned(who)' <=
                        Insurance!Earned(who) + (share + RewardScale - 1) \div RewardScale
          ]_(Insurance!vars)
  BY EarnedStep DEF EarnsFairly
<1> QED
  BY <1>1, InsuranceInvariant, PTL DEF Insurance!Spec, Insurance!EarnedFromPremiums
-----------------------------------------------------------------------------
(***************************************************************************)
(* Fee distribution.                                                       *)
(***************************************************************************)

Ratios == [stakers : Nat, governance : Nat, treasury : Nat]
FeePool == [collected : Nat, distributed : Nat, pending : Nat, acc : Nat, governance : Nat]
RoundRecord == [total : Nat, stakers : Nat, governance : Nat, treasury : Nat]
VestingSchedule ==
    [beneficiary : Staker, token : Token, total : Nat, claimed : Nat, start : Nat,
     duration : Nat \ {0}, cliff : Nat]

\* The sum of a field of records, and of what schedules hold of a token.
FieldSum(records, field) ==
    SumFunctionOnSet([k \in DOMAIN records |-> records[k][field]], DOMAIN records)
OwnSchedules(s, t) == {k \in DOMAIN s : s[k].token = t}
VestedSum(s, t) ==
    SumFunctionOnSet([k \in OwnSchedules(s, t) |-> s[k].total], OwnSchedules(s, t))

\* The books of a token: its pool p, the records of its rounds and what is vested.  A share
\* that is less than a Precision-th of the stake is lost to rounding, so that nothing has
\* been accumulated says that nothing was shared only while the stake is not that large.
TokenBooked(p, records, vested) ==
    /\ p.collected = p.pending + FieldSum(records, "total")
    /\ FieldSum(records, "total") = FieldSum(records, "stakers")
          + FieldSum(records, "governance") + FieldSum(records, "treasury")
    /\ p.governance + vested >= FieldSum(records, "governance")
    /\ p.governance + vested <= FieldSum(records, "governance") + FieldSum(records, "stakers")
    /\ MaxStaked <= Precision /\ p.acc = 0 =>
          p.governance + vested = FieldSum(records, "governance") + FieldSum(records, "stakers")

\* Settings, stakes, pools and schedules.
FeeSettings ==
    /\ now \in 0 .. MaxNow
    /\ ratios \in Ratios /\ Distribution!ValidRatios(ratios)
    /\ tokens \subseteq Token /\ collectors \subseteq Collector

StakesSound ==
    /\ stake \in [Staker -> Nat] /\ total_staked \in 0 .. MaxStaked
    /\ total_staked = SumFunctionOnSet(stake, Staker)
    /\ debt \in [Staker -> [Token -> Nat]] /\ unclaimed \in [Staker -> [Token -> Nat]]

PoolsSound ==
    /\ pools \in [Token -> FeePool] /\ rounds \in [Token -> Seq(RoundRecord)]
    /\ \A t \in Token \ tokens : pools[t].acc = 0 /\ pools[t].pending = 0

SchedulesSound ==
    /\ schedules \in Seq(VestingSchedule)
    /\ \A k \in DOMAIN schedules : /\ schedules[k].claimed <= schedules[k].total
                                   /\ schedules[k].start <= now

\* The inductive invariant.
FeesInv ==
    /\ FeeSettings /\ StakesSound /\ PoolsSound /\ SchedulesSound
    /\ held \in [Distribution!AllTokens -> Nat]
    /\ \A t \in Token : TokenBooked(pools[t], rounds[t], VestedSum(schedules, t))

\* The contract adds up as the library does.
LEMMA DistributionCounts ==
    /\ \A S : Distribution!IsFiniteSet(S) <=> IsFiniteSet(S)
    /\ \A f, S : Distribution!SumFunctionOnSet(f, S) = SumFunctionOnSet(f, S)
BY DEF Distribution!IsFiniteSet, IsFiniteSet, Distribution!SumFunctionOnSet, SumFunctionOnSet,
   Distribution!FoldFunctionOnSet, FoldFunctionOnSet, Distribution!MapThenFoldSet,
   MapThenFoldSet

\* A place more: the sum grows by what is there.
LEMMA SumExtended ==
    ASSUME NEW S, IsFiniteSet(S), NEW x, x \notin S, NEW f, NEW g,
           \A k \in S : g[k] = f[k] /\ f[k] \in Int, g[x] \in Int
    PROVE  /\ SumFunctionOnSet(g, S \cup {x}) = SumFunctionOnSet(f, S) + g[x]
           /\ SumFunctionOnSet(f, S) \in Int
<1>1. SumFunctionOnSet(g, S \cup {x}) = g[x] + SumFunctionOnSet(g, S)
  <2>1. \A y \in S \cup {x} : g[y] \in Int
    OBVIOUS
  <2> QED
    BY <2>1, SumAdd
<1>2. SumFunctionOnSet(g, S) = SumFunctionOnSet(f, S)
  <2>1. \A k \in S : g[k] = f[k]
    OBVIOUS
  <2> QED
    BY <2>1, SumEqual
<1>3. SumFunctionOnSet(f, S) \in Int
  BY SumType
<1> QED
  BY <1>1, <1>2, <1>3

\* The sum of a field of the records of rounds, and with one more record.
LEMMA FieldAdded ==
    ASSUME NEW records \in Seq(RoundRecord), NEW r \in RoundRecord,
           NEW field \in {"total", "stakers", "governance", "treasury"}
    PROVE  /\ FieldSum(records, field) \in Int
           /\ FieldSum(Append(records, r), field) = FieldSum(records, field) + r[field]
<1> DEFINE n == Len(records)
           S == DOMAIN records
           more == Append(records, r)
           f == [k \in DOMAIN records |-> records[k][field]]
           g == [k \in DOMAIN more |-> more[k][field]]
<1>1. /\ n \in Nat /\ S = 1 .. n /\ DOMAIN more = 1 .. n + 1
      /\ \A k \in S : more[k] = records[k] /\ records[k] \in RoundRecord
      /\ more[n + 1] = r
  OBVIOUS
<1>2. IsFiniteSet(S)
  <2>1. \A k \in Nat : IsFiniteSet(1 .. k)
    BY FS_Interval
  <2> QED
    BY <1>1, <2>1
<1>3. DOMAIN more = S \cup {n + 1} /\ n + 1 \notin S
  BY <1>1
<1>4. \A k \in S : g[k] = f[k] /\ f[k] \in Int
  <2>1. \A q \in RoundRecord : q[field] \in Int
    BY DEF RoundRecord
  <2>2. \A k \in S : k \in DOMAIN more
    BY <1>3
  <2> HIDE DEF more, n
  <2> QED
    BY <1>1, <2>1, <2>2
<1>5. g[n + 1] = r[field] /\ r[field] \in Int
  <2>1. r[field] \in Int
    BY DEF RoundRecord
  <2>2. n + 1 \in DOMAIN more
    BY <1>3
  <2> HIDE DEF more, n
  <2> QED
    BY <1>1, <2>1, <2>2
<1>6. PICK x : x = n + 1
  OBVIOUS
<1>7. x \notin S /\ g[x] \in Int
  BY <1>3, <1>5, <1>6
<1>8. FieldSum(records, field) = SumFunctionOnSet(f, S)
  BY DEF FieldSum
<1>9. FieldSum(more, field) = SumFunctionOnSet(g, S \cup {x})
  BY <1>3, <1>6 DEF FieldSum
<1> HIDE DEF f, g, S, more, n
<1>10. /\ SumFunctionOnSet(g, S \cup {x}) = SumFunctionOnSet(f, S) + g[x]
       /\ SumFunctionOnSet(f, S) \in Int
  BY <1>2, <1>4, <1>7, SumExtended
<1> QED
  BY <1>5, <1>6, <1>8, <1>9, <1>10 DEF more

\* What is vested for a token, and with one more schedule.
LEMMA VestedAdded ==
    ASSUME NEW s \in Seq(VestingSchedule), NEW v \in VestingSchedule, NEW t
    PROVE  /\ VestedSum(s, t) \in Int
           /\ VestedSum(Append(s, v), t) =
                  VestedSum(s, t) + (IF v.token = t THEN v.total ELSE 0)
<1> DEFINE n == Len(s)
           S == OwnSchedules(s, t)
           more == Append(s, v)
           T == OwnSchedules(more, t)
           f == [k \in S |-> s[k].total]
           g == [k \in T |-> more[k].total]
<1>1. /\ n \in Nat /\ DOMAIN s = 1 .. n /\ DOMAIN more = 1 .. n + 1
      /\ \A k \in DOMAIN s : more[k] = s[k] /\ s[k] \in VestingSchedule
      /\ more[n + 1] = v
  OBVIOUS
<1>2. IsFiniteSet(S) /\ S \subseteq DOMAIN s
  <2>1. IsFiniteSet(DOMAIN s)
    BY <1>1, FS_Interval
  <2>2. S \subseteq DOMAIN s
    BY DEF OwnSchedules
  <2> QED
    BY <2>1, <2>2, FS_Subset
<1>3. DOMAIN more = DOMAIN s \cup {n + 1} /\ n + 1 \notin DOMAIN s
  BY <1>1
<1>4. T = IF v.token = t THEN S \cup {n + 1} ELSE S
  <2> HIDE DEF more, n
  <2> QED
    BY <1>1, <1>3 DEF OwnSchedules
<1>5. \A k \in S : g[k] = f[k] /\ f[k] \in Int
  <2>1. \A q \in VestingSchedule : q.total \in Int
    BY DEF VestingSchedule
  <2>2. \A k \in S : k \in T /\ k \in DOMAIN s
    BY <1>2, <1>4
  <2> HIDE DEF more, n, T, S
  <2> QED
    BY <1>1, <2>1, <2>2
<1>6. VestedSum(s, t) = SumFunctionOnSet(f, S) /\ VestedSum(more, t) = SumFunctionOnSet(g, T)
  BY DEF VestedSum
<1>7. CASE v.token = t
  <2>1. PICK x : x = n + 1
    OBVIOUS
  <2>2. T = S \cup {x} /\ x \notin S
    BY <1>2, <1>3, <1>4, <1>7, <2>1
  <2>3. g[x] = v.total /\ v.total \in Int
    <3>1. x \in T
      BY <2>2
    <3> HIDE DEF T, more, n
    <3> QED
      BY <1>1, <2>1, <3>1 DEF VestingSchedule
  <2> HIDE DEF f, g, S, T, more, n
  <2>4. /\ SumFunctionOnSet(g, S \cup {x}) = SumFunctionOnSet(f, S) + g[x]
        /\ SumFunctionOnSet(f, S) \in Int
    <3>1. IsFiniteSet(S) /\ x \notin S /\ g[x] \in Int
      BY <1>2, <2>2, <2>3
    <3> QED
      BY <1>5, <3>1, SumExtended
  <2> QED
    BY <1>6, <1>7, <2>2, <2>3, <2>4 DEF more
<1>8. CASE v.token # t
  <2>1. T = S
    BY <1>4, <1>8
  <2>2. IsFiniteSet(S)
    BY <1>2
  <2> HIDE DEF f, g, S, T, more, n
  <2>3. SumFunctionOnSet(g, S) = SumFunctionOnSet(f, S) /\ SumFunctionOnSet(f, S) \in Int
    BY <1>5, <2>2, SumEqual, SumType
  <2> QED
    BY <1>6, <1>8, <2>1, <2>3 DEF more
<1> QED
  BY <1>7, <1>8

\* Two parts of a number whose shares make at most the whole.
LEMMA PartsWithin ==
    ASSUME NEW n \in Nat, NEW x \in Nat, NEW y \in Nat, NEW d \in Nat \ {0}, x + y <= d
    PROVE  (n * x) \div d \in Nat /\ (n * y) \div d \in Nat /\ (n * x) \div d + (n * y) \div d <= n
<1> DEFINE q == (n * x) \div d
           r == (n * y) \div d
<1>1. n * x \in Nat /\ n * y \in Nat
  OBVIOUS
<1>2. q \in Nat /\ r \in Nat /\ d * q <= n * x /\ d * r <= n * y
  BY <1>1, DivisionBounds
<1>3. n * x + n * y <= n * d
  <2>1. d - (x + y) \in Nat
    OBVIOUS
  <2>2. n * (d - (x + y)) \in Nat
    BY <2>1
  <2>3. n * (d - (x + y)) = n * d - (n * x + n * y)
    OBVIOUS
  <2>4. n * d \in Nat
    OBVIOUS
  <2> QED
    BY <1>1, <2>2, <2>3, <2>4
<1> HIDE DEF q, r
<1>4. ASSUME q + r >= n + 1 PROVE FALSE
  <2>1. q + r - n \in Nat \ {0}
    BY <1>2, <1>4
  <2>2. d * (q + r - n) = d * q + d * r - n * d /\ d * (q + r - n) \in Nat \ {0}
    BY <1>2, <2>1
  <2>3. d * q \in Nat /\ d * r \in Nat /\ n * d \in Nat
    BY <1>2
  <2> QED
    BY <1>1, <1>2, <1>3, <2>2, <2>3
<1>5. q + r <= n
  BY <1>2, <1>4
<1> QED
  BY <1>2, <1>5 DEF q, r

\* The parts of a split are a record and make the whole.
LEMMA SplitParts ==
    ASSUME FeeSettings, NEW amount \in Nat
    PROVE  /\ Distribution!Split(amount) \in RoundRecord
           /\ Distribution!Split(amount).total = amount
           /\ Distribution!Split(amount).stakers + Distribution!Split(amount).governance
                 + Distribution!Split(amount).treasury = amount
<1> DEFINE s == Distribution!PartOf(amount, ratios.stakers)
           g == Distribution!PartOf(amount, ratios.governance)
<1>1. /\ ratios.stakers \in Nat /\ ratios.governance \in Nat /\ ratios.treasury \in Nat
      /\ ratios.stakers + ratios.governance + ratios.treasury = Distribution!Bps
      /\ Distribution!Bps \in Nat \ {0}
  BY DEF FeeSettings, Ratios, Distribution!ValidRatios, Distribution!Bps
<1>2. s \in Nat /\ g \in Nat /\ s + g <= amount
  <2>1. ratios.stakers + ratios.governance <= Distribution!Bps
    BY <1>1
  <2> QED
    BY <1>1, <2>1, PartsWithin DEF Distribution!PartOf
<1>3. Distribution!Split(amount) =
          [total |-> amount, stakers |-> s, governance |-> g, treasury |-> amount - s - g]
  BY DEF Distribution!Split
<1> HIDE DEF s, g
<1>4. amount - s - g \in Nat /\ s + g + (amount - s - g) = amount
  BY <1>2
<1> QED
  BY <1>2, <1>3, <1>4 DEF RoundRecord

\* The invariant says what is checked of the contract.
LEMMA FeesChecked ==
    ASSUME FeesInv
    PROVE  /\ Distribution!TypeOK
           /\ MaxStaked <= Precision => Distribution!FeesAccounted
<1>1. Distribution!TypeOK
  <2>1. ASSUME NEW t \in Token, NEW f \in DOMAIN Distribution!EmptyPool
        PROVE  pools[t][f] \in Nat
    <3>1. pools[t] \in FeePool
      BY DEF FeesInv, PoolsSound
    <3>2. f \in {"collected", "distributed", "pending", "acc", "governance"}
      BY DEF Distribution!EmptyPool
    <3> QED
      BY <3>1, <3>2 DEF FeePool
  <2>2. total_staked \in Nat
    BY DEF FeesInv, StakesSound
  <2>3. \A a \in Staker, t \in Token : debt[a][t] \in Nat /\ unclaimed[a][t] \in Nat
    BY DEF FeesInv, StakesSound
  <2> QED
    BY <2>1, <2>2, <2>3 DEF FeesInv, FeeSettings, StakesSound, Distribution!TypeOK
<1>2. ASSUME MaxStaked <= Precision PROVE Distribution!FeesAccounted
  <2>1. ASSUME NEW t \in Token
        PROVE  /\ \A f : Distribution!RoundsOf(t, f) = FieldSum(rounds[t], f)
               /\ Distribution!VestingOf(t) = VestedSum(schedules, t)
    BY DistributionCounts DEF Distribution!RoundsOf, Distribution!VestingOf, FieldSum, VestedSum,
       OwnSchedules
  <2>2. \A t \in Token : TokenBooked(pools[t], rounds[t], VestedSum(schedules, t))
    BY DEF FeesInv
  <2>3. total_staked = Distribution!SumFunctionOnSet(stake, Staker)
    BY DistributionCounts DEF FeesInv, StakesSound
  <2>4. \A k \in DOMAIN schedules : schedules[k].claimed <= schedules[k].total
    BY DEF FeesInv, SchedulesSound
  <2> QED
    BY <1>2, <2>1, <2>2, <2>3, <2>4 DEF Distribution!FeesAccounted, TokenBooked
<1> QED
  BY <1>1, <1>2

\* It holds after initialize.
LEMMA InitFees ==
    ASSUME Distribution!FeesConstants, Distribution!Init
    PROVE  FeesInv
<1>1. FeeSettings
  BY DEF Distribution!FeesConstants, Distribution!Init, FeeSettings, Ratios
<1>2. StakesSound
  <2>1. stake = [a \in Staker |-> 0] /\ total_staked = 0 /\ IsFiniteSet(Staker)
    BY DistributionCounts DEF Distribution!FeesConstants, Distribution!Init
  <2>2. SumFunctionOnSet(stake, Staker) = 0
    BY <2>1, SumConstantZero
  <2> QED
    BY <2>1, <2>2 DEF Distribution!FeesConstants, Distribution!Init, StakesSound
<1>3. PoolsSound /\ SchedulesSound /\ held \in [Distribution!AllTokens -> Nat]
  BY DEF Distribution!Init, PoolsSound, SchedulesSound, FeePool, Distribution!EmptyPool
<1>4. ASSUME NEW t \in Token
      PROVE  TokenBooked(pools[t], rounds[t], VestedSum(schedules, t))
  <2>1. \A f : FieldSum(<<>>, f) = 0
    BY SumEmpty DEF FieldSum
  <2>2. VestedSum(<<>>, t) = 0
    <3>1. OwnSchedules(<<>>, t) = {}
      BY DEF OwnSchedules
    <3> QED
      BY <3>1, SumEmpty DEF VestedSum
  <2>3. rounds[t] = <<>> /\ schedules = <<>> /\ pools[t] = Distribution!EmptyPool
    BY DEF Distribution!Init
  <2> QED
    BY <2>1, <2>2, <2>3 DEF TokenBooked, Distribution!EmptyPool
<1> QED
  BY <1>1, <1>2, <1>3, <1>4 DEF FeesInv

\* A round distributes what is pending: the parts of the split go to the accumulator and
\* to governance, and its record keeps the books.
LEMMA DistributedBooked ==
    ASSUME Distribution!FeesConstants, FeesInv, NEW p \in FeePool, NEW records \in Seq(RoundRecord),
           NEW vested \in Int, TokenBooked(p, records, vested)
    PROVE  /\ Distribution!Distributed(p) \in FeePool
           /\ Distribution!Distributed(p).pending = 0
           /\ \E more \in Nat : Distribution!Distributed(p).acc = p.acc + more
           /\ Append(records, Distribution!Split(p.pending)) \in Seq(RoundRecord)
           /\ TokenBooked(Distribution!Distributed(p),
                          Append(records, Distribution!Split(p.pending)), vested)
<1> DEFINE cut == Distribution!Split(p.pending)
           more == IF total_staked > 0 THEN (cut.stakers * Precision) \div total_staked ELSE 0
           left == IF total_staked > 0 THEN 0 ELSE cut.stakers
           q == Distribution!Distributed(p)
           R(f) == FieldSum(records, f)
           N(f) == FieldSum(Append(records, cut), f)
<1>1. /\ p.collected \in Nat /\ p.distributed \in Nat /\ p.pending \in Nat /\ p.acc \in Nat
      /\ p.governance \in Nat
  BY DEF FeePool
<1>2. /\ cut \in RoundRecord /\ cut.total = p.pending
      /\ cut.stakers + cut.governance + cut.treasury = p.pending
  BY <1>1, SplitParts DEF FeesInv
<1>3. cut.total \in Nat /\ cut.stakers \in Nat /\ cut.governance \in Nat /\ cut.treasury \in Nat
  <2> HIDE DEF cut
  <2> QED
    BY <1>2 DEF RoundRecord
<1>4. /\ total_staked \in 0 .. MaxStaked /\ MaxStaked \in Nat /\ Precision \in Nat \ {0}
  BY DEF FeesInv, StakesSound, Distribution!FeesConstants
<1>5. more \in Nat /\ left \in Nat /\ left <= cut.stakers
  <2>1. cut.stakers * Precision \in Nat
    BY <1>3, <1>4
  <2> HIDE DEF cut
  <2> QED
    BY <1>3, <1>4, <2>1, DivisionBounds, SMTT(30)
<1>6. MaxStaked <= Precision /\ more = 0 => left = cut.stakers
  <2>1. SUFFICES ASSUME MaxStaked <= Precision, more = 0, total_staked > 0, cut.stakers > 0
                 PROVE  FALSE
    BY <1>3
  <2> DEFINE m == cut.stakers * Precision
  <2>2. m \in Nat /\ m >= Precision
    <3>1. cut.stakers - 1 \in Nat
      BY <1>3, <2>1
    <3>2. (cut.stakers - 1) * Precision \in Nat
      BY <1>4, <3>1
    <3>3. m = Precision + (cut.stakers - 1) * Precision
      BY <1>3, <1>4
    <3> QED
      BY <1>4, <3>2, <3>3
  <2> HIDE DEF m
  <2>3. m \div total_staked = 0
    BY <2>1 DEF m
  <2>4. m < total_staked * (m \div total_staked) + total_staked
    BY <1>4, <2>1, <2>2, DivisionBounds
  <2> QED
    BY <1>4, <2>1, <2>2, <2>3, <2>4
<1>7. q = [p EXCEPT !.acc = p.acc + more, !.governance = p.governance + cut.governance + left,
                    !.distributed = p.distributed + p.pending, !.pending = 0]
  BY DEF Distribution!Distributed
<1>8. ASSUME NEW f \in {"total", "stakers", "governance", "treasury"}
      PROVE  R(f) \in Int /\ N(f) = R(f) + cut[f]
  <2> HIDE DEF cut
  <2> QED
    BY <1>2, <1>8, FieldAdded
<1>9. /\ R("total") \in Int /\ N("total") = R("total") + cut.total
      /\ R("stakers") \in Int /\ N("stakers") = R("stakers") + cut.stakers
      /\ R("governance") \in Int /\ N("governance") = R("governance") + cut.governance
      /\ R("treasury") \in Int /\ N("treasury") = R("treasury") + cut.treasury
  BY <1>8
<1>10. Append(records, cut) \in Seq(RoundRecord)
  <2> HIDE DEF cut
  <2> QED
    BY <1>2
<1>11. /\ p.collected = p.pending + R("total")
       /\ R("total") = R("stakers") + R("governance") + R("treasury")
       /\ p.governance + vested >= R("governance")
       /\ p.governance + vested <= R("governance") + R("stakers")
       /\ MaxStaked <= Precision /\ p.acc = 0 =>
             p.governance + vested = R("governance") + R("stakers")
  BY DEF TokenBooked
<1>12. PICK cs \in Nat, cg \in Nat, ct \in Nat, up \in Nat, over \in Nat :
              /\ cs = cut.stakers /\ cg = cut.governance /\ ct = cut.treasury
              /\ up = more /\ over = left
  BY <1>3, <1>5
<1>13. PICK rt \in Int, rs \in Int, rg \in Int, rr \in Int :
              /\ rt = R("total") /\ rs = R("stakers") /\ rg = R("governance")
              /\ rr = R("treasury")
  BY <1>9
<1>14. /\ q \in FeePool /\ q.collected = p.collected /\ q.pending = 0 /\ q.acc = p.acc + up
       /\ q.governance = p.governance + cg + over
  <2>1. q = [p EXCEPT !.acc = p.acc + up, !.governance = p.governance + cg + over,
                      !.distributed = p.distributed + p.pending, !.pending = 0]
    BY <1>7, <1>12
  <2> HIDE DEF q, cut, more, left, R, N
  <2>2. /\ p.acc + up \in Nat /\ p.governance + cg + over \in Nat
        /\ p.distributed + p.pending \in Nat
    <3>1. PICK ac \in Nat, gv \in Nat, di \in Nat, pe \in Nat :
                  ac = p.acc /\ gv = p.governance /\ di = p.distributed /\ pe = p.pending
      BY <1>1
    <3>2. ac + up \in Nat /\ gv + cg + over \in Nat /\ di + pe \in Nat
      BY ONLY ac \in Nat, gv \in Nat, di \in Nat, pe \in Nat,
              up \in Nat, cg \in Nat, over \in Nat
    <3> QED
      BY ONLY <3>1, <3>2
  <2> QED
    BY <2>1, <2>2 DEF FeePool
<1>15. /\ N("total") = rt + p.pending /\ N("stakers") = rs + cs
       /\ N("governance") = rg + cg /\ N("treasury") = rr + ct
  BY <1>2, <1>9, <1>12, <1>13
<1>16. /\ p.collected = p.pending + rt /\ rt = rs + rg + rr
       /\ p.governance + vested >= rg /\ p.governance + vested <= rg + rs
       /\ MaxStaked <= Precision /\ p.acc = 0 => p.governance + vested = rg + rs
       /\ MaxStaked <= Precision /\ up = 0 => over = cs
       /\ over <= cs /\ cs + cg + ct = p.pending
  BY <1>2, <1>5, <1>6, <1>11, <1>12, <1>13
<1> HIDE DEF cut, more, left, q, R, N
<1>17. /\ q.collected = 0 + (rt + p.pending)
       /\ rt + p.pending = (rs + cs) + (rg + cg) + (rr + ct)
       /\ q.governance + vested >= rg + cg
       /\ q.governance + vested <= (rg + cg) + (rs + cs)
       /\ MaxStaked <= Precision /\ q.acc = 0 => q.governance + vested = (rg + cg) + (rs + cs)
  <2>1. PICK pend \in Nat, gov \in Nat, acc \in Nat, all \in Nat :
                /\ pend = p.pending /\ gov = p.governance /\ acc = p.acc /\ all = p.collected
    BY <1>1
  <2>2. /\ all = pend + rt /\ rt = rs + rg + rr
        /\ gov + vested >= rg /\ gov + vested <= rg + rs
        /\ MaxStaked <= Precision /\ acc = 0 => gov + vested = rg + rs
        /\ MaxStaked <= Precision /\ up = 0 => over = cs
        /\ over <= cs /\ cs + cg + ct = pend
    BY <1>16, <2>1
  <2>3. /\ all = 0 + (rt + pend)
        /\ rt + pend = (rs + cs) + (rg + cg) + (rr + ct)
        /\ (gov + cg + over) + vested >= rg + cg
        /\ (gov + cg + over) + vested <= (rg + cg) + (rs + cs)
    BY <2>2
  <2>4. MaxStaked <= Precision /\ acc + up = 0 =>
            (gov + cg + over) + vested = (rg + cg) + (rs + cs)
    BY <2>2
  <2> QED
    BY <1>14, <2>1, <2>3, <2>4
<1>18. TokenBooked(q, Append(records, cut), vested)
  BY <1>14, <1>15, <1>17 DEF TokenBooked, N
<1> QED
  BY <1>5, <1>10, <1>12, <1>14, <1>18 DEF cut, q

\* What is vested is a number.
LEMMA VestedNumber ==
    ASSUME NEW s \in Seq(VestingSchedule), NEW t
    PROVE  VestedSum(s, t) \in Int
<1> DEFINE S == OwnSchedules(s, t)
           f == [k \in S |-> s[k].total]
<1>1. IsFiniteSet(S) /\ S \subseteq DOMAIN s
  <2>1. IsFiniteSet(DOMAIN s)
    <3>1. Len(s) \in Nat /\ DOMAIN s = 1 .. Len(s)
      OBVIOUS
    <3> QED
      BY <3>1, FS_Interval
  <2>2. S \subseteq DOMAIN s
    BY DEF OwnSchedules
  <2> QED
    BY <2>1, <2>2, FS_Subset
<1>2. \A k \in S : f[k] \in Int
  <2>1. \A k \in DOMAIN s : s[k] \in VestingSchedule
    OBVIOUS
  <2> QED
    BY <1>1, <2>1 DEF VestingSchedule
<1>3. VestedSum(s, t) = SumFunctionOnSet(f, S)
  BY DEF VestedSum
<1> HIDE DEF f, S
<1> QED
  BY <1>1, <1>2, <1>3, SumType

\* What the pools, the records of rounds and the balances hold after a round: the tokens
\* that are due are distributed, their treasury's part is paid, and the others are kept.
PoolsRound(before) ==
    /\ pools' \in [Token -> FeePool] /\ rounds' \in [Token -> Seq(RoundRecord)]
    /\ held' \in [Distribution!AllTokens -> Nat]
    /\ \A t \in Token :
          /\ TokenBooked(pools'[t], rounds'[t], VestedSum(schedules, t))
          /\ \E more \in Nat : pools'[t].acc = before[t].acc + more
          /\ t \notin tokens => pools'[t].acc = 0 /\ pools'[t].pending = 0

\* A round, with or without a fee credited before it.
LEMMA RoundKeeps ==
    ASSUME Distribution!FeesConstants, FeesInv, NEW chosen, NEW before \in [Token -> FeePool],
           NEW balance \in [Distribution!AllTokens -> Nat],
           \A t \in Token : TokenBooked(before[t], rounds[t], VestedSum(schedules, t)),
           \A t \in Token \ tokens : before[t].acc = 0 /\ before[t].pending = 0,
           Distribution!Round(chosen, before, balance)
    PROVE  PoolsRound(before) /\ last_round' = now
<1> DEFINE due == {t \in chosen \cap tokens : before[t].pending > 0}
           paid(t) == IF t \in due THEN Distribution!Split(before[t].pending).treasury ELSE 0
<1>1. /\ \A t \in due : paid(t) <= balance[t]
      /\ pools' = [t \in Token |-> IF t \in due THEN Distribution!Distributed(before[t])
                                   ELSE before[t]]
      /\ held' = [t \in Distribution!AllTokens |-> balance[t] - paid(t)]
      /\ rounds' = [t \in Token |-> IF t \in due
                                    THEN Append(rounds[t], Distribution!Split(before[t].pending))
                                    ELSE rounds[t]]
      /\ last_round' = now
  BY DEF Distribution!Round
<1>2. due \subseteq tokens /\ tokens \subseteq Token /\ rounds \in [Token -> Seq(RoundRecord)]
  BY DEF FeesInv, FeeSettings, PoolsSound
<1>3. \A t \in Token : VestedSum(schedules, t) \in Int
  BY VestedNumber DEF FeesInv, SchedulesSound
<1>4. ASSUME NEW t \in Token
      PROVE  /\ pools'[t] \in FeePool /\ rounds'[t] \in Seq(RoundRecord)
             /\ TokenBooked(pools'[t], rounds'[t], VestedSum(schedules, t))
             /\ \E more \in Nat : pools'[t].acc = before[t].acc + more
             /\ t \notin tokens => pools'[t].acc = 0 /\ pools'[t].pending = 0
  <2> PICK p \in FeePool : p = before[t]
    OBVIOUS
  <2> PICK r \in Seq(RoundRecord) : r = rounds[t]
    BY <1>2
  <2> PICK v \in Int : v = VestedSum(schedules, t)
    BY <1>3
  <2>1. TokenBooked(p, r, v)
    OBVIOUS
  <2>2. CASE t \in due
    <3>1. pools'[t] = Distribution!Distributed(p)
      BY <1>1, <2>2
    <3>2. rounds'[t] = Append(r, Distribution!Split(p.pending))
      BY <1>1, <2>2
    <3>3. t \in tokens
      BY <1>2, <2>2
    <3> QED
      BY <2>1, <3>1, <3>2, <3>3, DistributedBooked
  <2>3. CASE t \notin due
    <3>1. pools'[t] = p /\ rounds'[t] = r
      BY <1>1, <2>3
    <3>2. p.acc \in Nat
      BY DEF FeePool
    <3>3. p.acc = p.acc + 0
      BY <3>2
    <3>4. \E more \in Nat : pools'[t].acc = before[t].acc + more
      BY <3>1, <3>3
    <3>5. t \notin tokens => p.acc = 0 /\ p.pending = 0
      OBVIOUS
    <3> QED
      BY <2>1, <3>1, <3>4, <3>5
  <2> QED
    BY <2>2, <2>3
<1>5. ASSUME NEW t \in Distribution!AllTokens
      PROVE  balance[t] - paid(t) \in Nat
  <2>1. CASE t \in due
    <3>1. before[t].pending \in Nat
      BY <1>2, <2>1 DEF FeePool
    <3>2. Distribution!Split(before[t].pending) \in RoundRecord
      BY <3>1, SplitParts DEF FeesInv
    <3>3. Distribution!Split(before[t].pending).treasury \in Nat
      BY <3>2 DEF RoundRecord
    <3>4. paid(t) \in Nat /\ paid(t) <= balance[t]
      BY <1>1, <2>1, <3>3
    <3>5. balance[t] \in Nat
      OBVIOUS
    <3> HIDE DEF paid
    <3> QED
      BY <3>4, <3>5
  <2>2. CASE t \notin due
    <3>1. paid(t) = 0
      BY <2>2
    <3> HIDE DEF paid
    <3> QED
      BY <3>1
  <2> QED
    BY <2>1, <2>2
<1>6. held' \in [Distribution!AllTokens -> Nat]
  <2> HIDE DEF paid
  <2> QED
    BY <1>1, <1>5
<1>7. pools' \in [Token -> FeePool]
  <2>1. pools' = [t \in Token |-> pools'[t]]
    BY <1>1
  <2> QED
    BY <1>4, <2>1
<1>8. rounds' \in [Token -> Seq(RoundRecord)]
  <2>1. rounds' = [t \in Token |-> rounds'[t]]
    BY <1>1
  <2> QED
    BY <1>4, <2>1
<1> QED
  BY <1>1, <1>4, <1>6, <1>7, <1>8 DEF PoolsRound

\* A fee credited to a registered token.
LEMMA Credited ==
    ASSUME Distribution!FeesConstants, FeesInv, NEW t \in tokens, NEW amount \in Nat, NEW before,
           before = [pools EXCEPT ![t].collected = @ + amount, ![t].pending = @ + amount]
    PROVE  /\ before \in [Token -> FeePool]
           /\ \A u \in Token : /\ before[u].acc = pools[u].acc
                               /\ TokenBooked(before[u], rounds[u], VestedSum(schedules, u))
           /\ \A u \in Token \ tokens : before[u].acc = 0 /\ before[u].pending = 0
<1>1. pools \in [Token -> FeePool] /\ t \in Token /\ rounds \in [Token -> Seq(RoundRecord)]
  BY DEF FeesInv, PoolsSound, FeeSettings
<1> DEFINE p == pools[t]
           q == [p EXCEPT !.collected = p.collected + amount, !.pending = p.pending + amount]
<1>2. p.collected \in Nat /\ p.pending \in Nat
  BY <1>1 DEF FeePool
<1>3. p.collected + amount \in Nat /\ p.pending + amount \in Nat
  BY <1>2
<1>4. /\ q \in FeePool /\ q.collected = p.collected + amount /\ q.pending = p.pending + amount
      /\ q.acc = p.acc /\ q.governance = p.governance
  BY <1>1, <1>3 DEF FeePool
<1>5. before = [pools EXCEPT ![t] = q]
  BY <1>1
<1> HIDE DEF q
<1>6. /\ before \in [Token -> FeePool] /\ before[t] = q
      /\ \A u \in Token \ {t} : before[u] = pools[u]
  BY <1>1, <1>4, <1>5
<1>7. TokenBooked(q, rounds[t], VestedSum(schedules, t))
  <2>1. TokenBooked(p, rounds[t], VestedSum(schedules, t))
    BY <1>1 DEF FeesInv
  <2>2. FieldSum(rounds[t], "total") \in Int
    <3>1. [total |-> 0, stakers |-> 0, governance |-> 0, treasury |-> 0] \in RoundRecord
      BY DEF RoundRecord
    <3> QED
      BY <1>1, <3>1, FieldAdded
  <2>3. PICK rt \in Int, all \in Nat, pend \in Nat :
                rt = FieldSum(rounds[t], "total") /\ all = p.collected /\ pend = p.pending
    BY <1>2, <2>2
  <2>4. all = pend + rt
    BY <2>1, <2>3 DEF TokenBooked
  <2>5. all + amount = (pend + amount) + rt
    BY <2>4
  <2> QED
    BY <1>4, <2>1, <2>3, <2>5 DEF TokenBooked
<1>8. \A u \in Token : TokenBooked(pools[u], rounds[u], VestedSum(schedules, u))
  BY DEF FeesInv
<1>9. \A u \in Token \ tokens : pools[u].acc = 0 /\ pools[u].pending = 0
  BY DEF FeesInv, PoolsSound
<1>10. ASSUME NEW u \in Token
       PROVE  /\ before[u].acc = pools[u].acc
              /\ TokenBooked(before[u], rounds[u], VestedSum(schedules, u))
  <2>1. CASE u = t
    BY <1>4, <1>6, <1>7, <2>1
  <2>2. CASE u # t
    BY <1>6, <1>8, <2>2
  <2> QED
    BY <2>1, <2>2
<1> QED
  BY <1>6, <1>9, <1>10

\* A call that changes pools, records and balances only.
LEMMA PoolsMoved ==
    ASSUME FeesInv, NEW before, PoolsRound(before),
           UNCHANGED <<now, ratios, tokens, collectors, total_staked, stake, debt, unclaimed,
                       schedules>>
    PROVE  FeesInv'
<1>1. FeeSettings'
  BY DEF FeesInv, FeeSettings, Ratios, Distribution!ValidRatios, Distribution!Bps
<1>2. StakesSound' /\ SchedulesSound'
  BY DEF FeesInv, StakesSound, SchedulesSound, VestingSchedule
<1>3. PoolsSound' /\ held' \in [Distribution!AllTokens -> Nat]
  BY DEF PoolsRound, PoolsSound, FeePool, RoundRecord
<1>4. \A t \in Token : TokenBooked(pools'[t], rounds'[t], VestedSum(schedules', t))
  BY DEF PoolsRound
<1> QED
  BY <1>1, <1>2, <1>3, <1>4 DEF FeesInv, Distribution!AllTokens

\* The accumulators after a fee or a round: they have grown or stayed.
Accumulated == \A t \in Token : \E more \in Nat : pools'[t].acc = pools[t].acc + more

\* A fee collected, with the round it may start.
LEMMA CollectKeeps ==
    ASSUME Distribution!FeesConstants, FeesInv, NEW who, NEW t, NEW amount \in Fees,
           Distribution!CollectFees(who, t, amount)
    PROVE  FeesInv' /\ Accumulated
<1> DEFINE before == [pools EXCEPT ![t].collected = @ + amount, ![t].pending = @ + amount]
           balance == [held EXCEPT ![t] = @ + amount]
<1>1. /\ amount > 0 /\ t \in tokens
      /\ \/ Distribution!Round(tokens, before, balance)
         \/ pools' = before /\ held' = balance /\ UNCHANGED rounds
      /\ UNCHANGED <<now, ratios, tokens, collectors, total_staked, stake, debt, unclaimed,
                     schedules>>
  BY DEF Distribution!CollectFees, Distribution!stakeVars
<1>2. amount \in Nat
  BY <1>1 DEF Distribution!FeesConstants
<1>3. /\ before \in [Token -> FeePool]
      /\ \A u \in Token : /\ before[u].acc = pools[u].acc
                          /\ TokenBooked(before[u], rounds[u], VestedSum(schedules, u))
      /\ \A u \in Token \ tokens : before[u].acc = 0 /\ before[u].pending = 0
  <2>1. PICK p : p = before
    OBVIOUS
  <2> QED
    BY <1>1, <1>2, <2>1, Credited, ZenonT(40)
<1>4. balance \in [Distribution!AllTokens -> Nat]
  <2>1. held \in [Distribution!AllTokens -> Nat]
    BY DEF FeesInv
  <2>2. t \in Distribution!AllTokens
    BY <1>1 DEF FeesInv, FeeSettings, Distribution!AllTokens
  <2>3. held[t] + amount \in Nat
    BY <1>2, <2>1, <2>2
  <2> QED
    BY <2>1, <2>2, <2>3
<1>5. PoolsRound(before)
  <2>1. CASE Distribution!Round(tokens, before, balance)
    <3>1. PICK p \in [Token -> FeePool], b \in [Distribution!AllTokens -> Nat] :
                  p = before /\ b = balance
      BY <1>3, <1>4
    <3>2. Distribution!Round(tokens, p, b)
      BY <2>1, <3>1
    <3>3. /\ \A u \in Token : TokenBooked(p[u], rounds[u], VestedSum(schedules, u))
          /\ \A u \in Token \ tokens : p[u].acc = 0 /\ p[u].pending = 0
      BY <1>3, <3>1
    <3> HIDE DEF before, balance
    <3>4. PoolsRound(p)
      BY <3>2, <3>3, RoundKeeps
    <3> QED
      BY <3>1, <3>4
  <2>2. CASE pools' = before /\ held' = balance /\ UNCHANGED rounds
    <3>1. \A u \in Token : before[u].acc \in Nat
      BY <1>3 DEF FeePool
    <3>2. \A u \in Token : before[u].acc = before[u].acc + 0
      <4> HIDE DEF before
      <4> QED
        BY <3>1
    <3>3. rounds \in [Token -> Seq(RoundRecord)]
      BY DEF FeesInv, PoolsSound
    <3> HIDE DEF before, balance
    <3> QED
      BY <1>3, <1>4, <2>2, <3>2, <3>3 DEF PoolsRound
  <2> QED
    BY <1>1, <2>1, <2>2
<1> HIDE DEF before, balance
<1>6. FeesInv'
  BY <1>1, <1>5, PoolsMoved
<1> QED
  BY <1>3, <1>5, <1>6 DEF PoolsRound, Accumulated

\* A round that is called for.
LEMMA DistributeKeeps ==
    ASSUME Distribution!FeesConstants, FeesInv, NEW chosen, Distribution!DistributeFees(chosen)
    PROVE  FeesInv' /\ Accumulated
<1>1. PICK c : Distribution!Round(c, pools, held)
  BY DEF Distribution!DistributeFees
<1>2. UNCHANGED <<now, ratios, tokens, collectors, total_staked, stake, debt, unclaimed, schedules>>
  BY DEF Distribution!DistributeFees, Distribution!stakeVars
<1>3. PoolsRound(pools)
  <2>1. PICK p \in [Token -> FeePool], b \in [Distribution!AllTokens -> Nat] :
                p = pools /\ b = held
    BY DEF FeesInv, PoolsSound
  <2>2. Distribution!Round(c, p, b)
    BY <1>1, <2>1
  <2>3. /\ \A u \in Token : TokenBooked(p[u], rounds[u], VestedSum(schedules, u))
        /\ \A u \in Token \ tokens : p[u].acc = 0 /\ p[u].pending = 0
    BY <2>1 DEF FeesInv, PoolsSound
  <2>4. PoolsRound(p)
    BY <2>2, <2>3, RoundKeeps
  <2> QED
    BY <2>1, <2>4
<1> QED
  BY <1>2, <1>3, PoolsMoved DEF PoolsRound, Accumulated

\* Numbers a staker's call computes.
LEMMA StakerNumbers ==
    ASSUME Distribution!FeesConstants, FeesInv, NEW a \in Staker
    PROVE  /\ stake[a] \in Nat /\ stake[a] <= total_staked /\ total_staked \in 0 .. MaxStaked
           /\ debt[a] \in [Token -> Nat] /\ unclaimed[a] \in [Token -> Nat]
           /\ \A t \in Token : /\ pools[t].acc \in Nat /\ Distribution!Live(a, t) \in Nat
                               /\ \A n \in Nat : Distribution!Accrued(n, t) \in Nat
           /\ Distribution!Harvested(a) \in [Token -> Nat]
<1>1. /\ stake \in [Staker -> Nat] /\ total_staked \in 0 .. MaxStaked
      /\ total_staked = SumFunctionOnSet(stake, Staker)
      /\ debt \in [Staker -> [Token -> Nat]] /\ unclaimed \in [Staker -> [Token -> Nat]]
  BY DEF FeesInv, StakesSound
<1>2. stake[a] <= total_staked
  <2>1. IsFiniteSet(Staker)
    BY DistributionCounts DEF Distribution!FeesConstants
  <2> QED
    BY <1>1, <2>1, SumNatural
<1>3. ASSUME NEW t \in Token
      PROVE  /\ pools[t].acc \in Nat /\ Distribution!Live(a, t) \in Nat
             /\ \A n \in Nat : Distribution!Accrued(n, t) \in Nat
  <2>1. pools[t].acc \in Nat
    BY DEF FeesInv, PoolsSound, FeePool
  <2>2. ASSUME NEW n \in Nat PROVE Distribution!Accrued(n, t) \in Nat
    <3>1. n * pools[t].acc \in Nat
      BY <2>1
    <3>2. PICK m \in Nat : m = n * pools[t].acc
      BY <3>1
    <3>3. m \div Precision \in Nat
      BY DivisionBounds DEF Distribution!FeesConstants
    <3> QED
      BY <3>2, <3>3 DEF Distribution!Accrued
  <2>3. Distribution!Accrued(stake[a], t) \in Nat /\ debt[a][t] \in Nat
    BY <1>1, <2>2
  <2>4. Distribution!Live(a, t) \in Nat
    BY <2>3 DEF Distribution!Live
  <2> QED
    BY <2>1, <2>2, <2>4
<1>4. Distribution!Harvested(a) \in [Token -> Nat]
  <2>1. \A t \in Token : unclaimed[a][t] + Distribution!Live(a, t) \in Nat
    BY <1>1, <1>3
  <2> QED
    BY <2>1 DEF Distribution!Harvested
<1> QED
  BY <1>1, <1>2, <1>3, <1>4

\* The stake of a staker, and what it earned, after a call that settled it: nothing is
\* left to harvest, what there was is set apart or paid, and no one else is touched.
StakeSettled(a) ==
    /\ StakesSound'
    /\ \A t \in Token : /\ Distribution!Live(a, t)' = 0
                        /\ unclaimed'[a][t] \in {Distribution!Owed(a, t), 0}
    /\ \A b \in Staker \ {a} : /\ stake'[b] = stake[b] /\ debt'[b] = debt[b]
                               /\ unclaimed'[b] = unclaimed[b]

\* What is set apart: what was harvested, or nothing.
SetApart(a, h) ==
    /\ h \in [Token -> Nat]
    /\ \A t \in Token : h[t] \in {Distribution!Harvested(a)[t], 0}
    /\ unclaimed' = [unclaimed EXCEPT ![a] = h]

\* What was harvested is what was owed.
LEMMA Apart ==
    ASSUME Distribution!FeesConstants, FeesInv, NEW a \in Staker, NEW h, SetApart(a, h)
    PROVE  /\ unclaimed' \in [Staker -> [Token -> Nat]]
           /\ \A t \in Token : unclaimed'[a][t] \in {Distribution!Owed(a, t), 0}
           /\ \A b \in Staker \ {a} : unclaimed'[b] = unclaimed[b]
<1>1. unclaimed \in [Staker -> [Token -> Nat]]
  BY DEF FeesInv, StakesSound
<1>2. \A t \in Token : Distribution!Harvested(a)[t] = Distribution!Owed(a, t)
  BY DEF Distribution!Harvested, Distribution!Owed
<1>3. unclaimed'[a] = h
  BY <1>1 DEF SetApart
<1> QED
  BY <1>1, <1>2, <1>3 DEF SetApart

\* A change of the stake sets the debt of every registered token anew.
LEMMA StakeSet ==
    ASSUME Distribution!FeesConstants, FeesInv, NEW a \in Staker, NEW amount \in Nat,
           Distribution!SetStake(a, amount), total_staked - stake[a] + amount <= MaxStaked,
           NEW h, SetApart(a, h), UNCHANGED <<pools, tokens>>
    PROVE  StakeSettled(a)
<1>1. /\ stake' = [stake EXCEPT ![a] = amount]
      /\ debt' = [debt EXCEPT ![a] = Distribution!Synced(a, amount)]
      /\ total_staked' = total_staked - stake[a] + amount
  BY DEF Distribution!SetStake
<1>2. /\ stake \in [Staker -> Nat] /\ total_staked = SumFunctionOnSet(stake, Staker)
      /\ debt \in [Staker -> [Token -> Nat]] /\ IsFiniteSet(Staker)
  BY DistributionCounts DEF FeesInv, StakesSound, Distribution!FeesConstants
<1>3. /\ \A t \in Token : /\ Distribution!Accrued(amount, t) \in Nat /\ debt[a][t] \in Nat
                          /\ pools[t].acc \in Nat
      /\ stake[a] \in Nat /\ total_staked \in Nat /\ MaxStaked \in Nat
  BY StakerNumbers DEF Distribution!FeesConstants
<1>4. Distribution!Synced(a, amount) \in [Token -> Nat]
  BY <1>3 DEF Distribution!Synced
<1>5. stake' \in [Staker -> Nat] /\ debt' \in [Staker -> [Token -> Nat]]
  BY <1>1, <1>2, <1>4
<1>6. stake'[a] = amount /\ debt'[a] = Distribution!Synced(a, amount)
  BY <1>1, <1>2
<1>7. total_staked' = SumFunctionOnSet(stake', Staker) /\ total_staked' \in 0 .. MaxStaked
  <2>1. PICK new : new = stake'
    OBVIOUS
  <2>2. \A b \in Staker : stake[b] \in Int /\ new[b] \in Int /\ new[b] \in Nat
    BY <1>2, <1>5, <2>1
  <2>3. \A b \in Staker \ {a} : new[b] = stake[b]
    BY <1>1, <1>2, <2>1
  <2>4. SumFunctionOnSet(new, Staker) = SumFunctionOnSet(stake, Staker) + new[a] - stake[a]
    BY <1>2, <2>2, <2>3, SumChange, SMTT(30)
  <2>5. SumFunctionOnSet(new, Staker) \in Nat
    BY <1>2, <2>2, SumNatural
  <2>6. SumFunctionOnSet(new, Staker) = total_staked'
    BY <1>1, <1>2, <1>3, <1>6, <2>1, <2>4
  <2> QED
    BY <1>1, <1>3, <2>1, <2>5, <2>6
<1>8. ASSUME NEW t \in Token PROVE Distribution!Live(a, t)' = 0
  <2>1. Distribution!Accrued(stake[a], t)' = Distribution!Accrued(amount, t)
    BY <1>6 DEF Distribution!Accrued
  <2>2. CASE t \in tokens
    <3>1. debt'[a][t] = Distribution!Accrued(amount, t)
      BY <1>6, <2>2 DEF Distribution!Synced
    <3>2. ~ (Distribution!Accrued(stake[a], t)' > debt'[a][t])
      BY <1>3, <2>1, <3>1
    <3> QED
      BY <3>2 DEF Distribution!Live
  <2>3. CASE t \notin tokens
    BY <2>3 DEF Distribution!Live
  <2> QED
    BY <2>2, <2>3
<1>9. /\ unclaimed' \in [Staker -> [Token -> Nat]]
      /\ \A t \in Token : unclaimed'[a][t] \in {Distribution!Owed(a, t), 0}
      /\ \A b \in Staker \ {a} : unclaimed'[b] = unclaimed[b]
  BY Apart
<1>10. StakesSound'
  BY <1>5, <1>7, <1>9 DEF StakesSound
<1> QED
  BY <1>1, <1>2, <1>8, <1>9, <1>10 DEF StakeSettled

\* So does a payment, for what it harvested.
LEMMA DebtSet ==
    ASSUME Distribution!FeesConstants, FeesInv, NEW a \in Staker,
           debt' = [debt EXCEPT ![a] = [u \in Token |->
              IF Distribution!Live(a, u) > 0 THEN Distribution!Accrued(stake[a], u)
              ELSE debt[a][u]]],
           NEW h, SetApart(a, h), UNCHANGED <<pools, tokens, total_staked, stake>>
    PROVE  StakeSettled(a)
<1>1. /\ stake \in [Staker -> Nat] /\ debt \in [Staker -> [Token -> Nat]]
      /\ total_staked \in 0 .. MaxStaked /\ total_staked = SumFunctionOnSet(stake, Staker)
  BY DEF FeesInv, StakesSound
<1>2. /\ \A t \in Token : /\ Distribution!Accrued(stake[a], t) \in Nat /\ debt[a][t] \in Nat
                          /\ Distribution!Live(a, t) \in Nat
      /\ stake[a] \in Nat
  BY StakerNumbers
<1> DEFINE d == [u \in Token |-> IF Distribution!Live(a, u) > 0
                                 THEN Distribution!Accrued(stake[a], u) ELSE debt[a][u]]
<1>3. d \in [Token -> Nat]
  BY <1>2
<1>4. /\ debt' \in [Staker -> [Token -> Nat]] /\ debt'[a] = d
      /\ \A b \in Staker \ {a} : debt'[b] = debt[b]
  <2> HIDE DEF d
  <2>1. debt' = [debt EXCEPT ![a] = d]
    BY DEF d
  <2> QED
    BY <1>1, <1>3, <2>1
<1>5. ASSUME NEW t \in Token PROVE Distribution!Live(a, t)' = 0
  <2>1. Distribution!Accrued(stake[a], t)' = Distribution!Accrued(stake[a], t)
    BY DEF Distribution!Accrued
  <2>2. CASE Distribution!Live(a, t) > 0
    <3>1. debt'[a][t] = Distribution!Accrued(stake[a], t)
      BY <1>4, <2>2
    <3>2. ~ (Distribution!Accrued(stake[a], t)' > debt'[a][t])
      BY <1>2, <2>1, <3>1
    <3> QED
      BY <3>2 DEF Distribution!Live
  <2>3. CASE ~ (Distribution!Live(a, t) > 0)
    <3>1. debt'[a][t] = debt[a][t] /\ stake'[a] = stake[a] /\ tokens' = tokens
      BY <1>4, <2>3
    <3>2. Distribution!Live(a, t)' = Distribution!Live(a, t)
      BY <2>1, <3>1 DEF Distribution!Live
    <3> QED
      BY <1>2, <2>3, <3>2
  <2> QED
    BY <2>2, <2>3
<1>6. /\ unclaimed' \in [Staker -> [Token -> Nat]]
      /\ \A t \in Token : unclaimed'[a][t] \in {Distribution!Owed(a, t), 0}
      /\ \A b \in Staker \ {a} : unclaimed'[b] = unclaimed[b]
  BY Apart
<1>7. StakesSound'
  BY <1>1, <1>4, <1>6 DEF StakesSound
<1> HIDE DEF d
<1> QED
  BY <1>4, <1>5, <1>6, <1>7 DEF StakeSettled

\* A call of a staker, and what it pays.
LEMMA SettledKeeps ==
    ASSUME FeesInv, NEW a \in Staker, StakeSettled(a), held' \in [Distribution!AllTokens -> Nat],
           UNCHANGED <<now, ratios, tokens, collectors, pools, rounds, schedules>>
    PROVE  FeesInv'
<1>1. FeeSettings' /\ SchedulesSound'
  BY DEF FeesInv, FeeSettings, Ratios, Distribution!ValidRatios, Distribution!Bps,
     SchedulesSound, VestingSchedule
<1>2. PoolsSound'
  BY DEF FeesInv, PoolsSound, FeePool, RoundRecord
<1>3. \A t \in Token : TokenBooked(pools'[t], rounds'[t], VestedSum(schedules', t))
  BY DEF FeesInv
<1> QED
  BY <1>1, <1>2, <1>3 DEF FeesInv, StakeSettled, Distribution!AllTokens

\* More stake.
LEMMA JoinKeeps ==
    ASSUME Distribution!FeesConstants, FeesInv, NEW a \in Staker, NEW amount \in Stakes,
           NEW enable, Distribution!StakeForFees(a, amount, enable)
    PROVE  FeesInv' /\ StakeSettled(a) /\ UNCHANGED <<pools, tokens>>
<1>1. /\ amount > 0 /\ total_staked + amount <= MaxStaked
      /\ unclaimed' = [unclaimed EXCEPT ![a] = Distribution!Harvested(a)]
      /\ Distribution!SetStake(a, stake[a] + amount)
      /\ held' = [held EXCEPT ![StakingToken] = held[StakingToken] + amount]
      /\ UNCHANGED <<now, ratios, tokens, collectors, pools, rounds, schedules>>
  BY DEF Distribution!StakeForFees, Distribution!feeSettings
<1>2. /\ stake[a] \in Nat /\ total_staked \in Nat /\ Distribution!Harvested(a) \in [Token -> Nat]
      /\ held \in [Distribution!AllTokens -> Nat]
      /\ StakingToken \in Distribution!AllTokens
  BY StakerNumbers DEF FeesInv, Distribution!AllTokens
<1>3. amount \in Nat
  BY <1>1 DEF Distribution!FeesConstants
<1>4. SetApart(a, Distribution!Harvested(a))
  BY <1>1, <1>2 DEF SetApart
<1>5. PICK n \in Nat : n = stake[a] + amount /\ total_staked - stake[a] + n <= MaxStaked
  <2>1. total_staked - stake[a] + (stake[a] + amount) = total_staked + amount
    BY <1>2, <1>3
  <2>2. stake[a] + amount \in Nat
    BY <1>2, <1>3
  <2> QED
    BY <1>1, <2>1, <2>2
<1>6. StakeSettled(a)
  BY <1>1, <1>4, <1>5, StakeSet
<1>7. held' \in [Distribution!AllTokens -> Nat]
  <2>1. held[StakingToken] + amount \in Nat
    BY <1>2, <1>3
  <2> QED
    BY <1>1, <1>2, <2>1
<1> QED
  BY <1>1, <1>6, <1>7, SettledKeeps

\* Less stake.
LEMMA LeaveKeeps ==
    ASSUME Distribution!FeesConstants, FeesInv, NEW a \in Staker, NEW amount,
           Distribution!Unstake(a, amount)
    PROVE  FeesInv' /\ StakeSettled(a) /\ UNCHANGED <<pools, tokens>>
<1>1. /\ amount \in 1 .. stake[a] /\ amount <= held[StakingToken]
      /\ unclaimed' = [unclaimed EXCEPT ![a] = Distribution!Harvested(a)]
      /\ Distribution!SetStake(a, stake[a] - amount)
      /\ held' = [held EXCEPT ![StakingToken] = held[StakingToken] - amount]
      /\ UNCHANGED <<now, ratios, tokens, collectors, pools, rounds, schedules>>
  BY DEF Distribution!Unstake, Distribution!feeSettings
<1>2. /\ stake[a] \in Nat /\ total_staked \in 0 .. MaxStaked /\ MaxStaked \in Nat
      /\ Distribution!Harvested(a) \in [Token -> Nat]
      /\ held \in [Distribution!AllTokens -> Nat]
      /\ StakingToken \in Distribution!AllTokens
  BY StakerNumbers DEF FeesInv, Distribution!AllTokens, Distribution!FeesConstants
<1>3. amount \in Nat /\ amount <= stake[a]
  BY <1>1, <1>2
<1>4. SetApart(a, Distribution!Harvested(a))
  BY <1>1, <1>2 DEF SetApart
<1>5. PICK n \in Nat : n = stake[a] - amount /\ total_staked - stake[a] + n <= MaxStaked
  <2>1. total_staked - stake[a] + (stake[a] - amount) = total_staked - amount
    BY <1>2, <1>3
  <2>2. stake[a] - amount \in Nat /\ total_staked - amount <= MaxStaked
    BY <1>2, <1>3
  <2> QED
    BY <2>1, <2>2
<1>6. StakeSettled(a)
  BY <1>1, <1>4, <1>5, StakeSet
<1>7. held' \in [Distribution!AllTokens -> Nat]
  <2>1. held[StakingToken] - amount \in Nat
    BY <1>1, <1>2, <1>3
  <2> QED
    BY <1>1, <1>2, <2>1
<1> QED
  BY <1>1, <1>6, <1>7, SettledKeeps

\* What is set apart when a token's reward is taken.
LEMMA RewardTaken ==
    ASSUME Distribution!FeesConstants, FeesInv, NEW a \in Staker, NEW t \in Token,
           unclaimed' = [unclaimed EXCEPT ![a] = [Distribution!Harvested(a) EXCEPT ![t] = 0]]
    PROVE  SetApart(a, [Distribution!Harvested(a) EXCEPT ![t] = 0])
BY StakerNumbers DEF SetApart

\* The reward of a token is staked.
LEMMA CompoundKeeps ==
    ASSUME Distribution!FeesConstants, FeesInv, NEW a \in Staker, NEW t \in Token,
           Distribution!Compound(a, t), UNCHANGED <<pools, tokens>>
    PROVE  StakeSettled(a) /\ UNCHANGED held
<1> DEFINE reward == Distribution!Harvested(a)[t]
<1>1. /\ total_staked + reward <= MaxStaked
      /\ unclaimed' = [unclaimed EXCEPT ![a] = [Distribution!Harvested(a) EXCEPT ![t] = 0]]
      /\ Distribution!SetStake(a, stake[a] + reward) /\ UNCHANGED held
  BY DEF Distribution!Compound
<1>2. stake[a] \in Nat /\ total_staked \in Nat /\ reward \in Nat
  BY StakerNumbers
<1>3. PICK n \in Nat : n = stake[a] + reward /\ total_staked - stake[a] + n <= MaxStaked
  <2> HIDE DEF reward
  <2>1. total_staked - stake[a] + (stake[a] + reward) = total_staked + reward
    BY <1>2
  <2>2. stake[a] + reward \in Nat
    BY <1>2
  <2> QED
    BY <1>1, <2>1, <2>2
<1>4. PICK h : h = [Distribution!Harvested(a) EXCEPT ![t] = 0] /\ SetApart(a, h)
  BY <1>1, RewardTaken
<1>5. StakeSettled(a)
  BY <1>1, <1>3, <1>4, StakeSet
<1> QED
  BY <1>1, <1>5

\* The reward of a token is paid out or staked.
LEMMA ClaimKeeps ==
    ASSUME Distribution!FeesConstants, FeesInv, NEW a \in Staker, NEW t \in Token,
           Distribution!ClaimFees(a, t) \/ Distribution!CompoundRewards(a, t)
    PROVE  FeesInv' /\ StakeSettled(a) /\ UNCHANGED <<pools, tokens>>
<1>1. UNCHANGED <<now, ratios, tokens, collectors, pools, rounds, schedules>>
  BY DEF Distribution!ClaimFees, Distribution!CompoundRewards, Distribution!feeSettings
<1>2. /\ held \in [Distribution!AllTokens -> Nat] /\ t \in Distribution!AllTokens
      /\ Distribution!Harvested(a) \in [Token -> Nat]
  BY StakerNumbers DEF FeesInv, Distribution!AllTokens
<1>3. StakeSettled(a) /\ held' \in [Distribution!AllTokens -> Nat]
  <2>1. CASE Distribution!Compound(a, t)
    BY <1>1, <1>2, <2>1, CompoundKeeps
  <2>2. CASE Distribution!PayReward(a, t)
    <3>1. /\ Distribution!Harvested(a)[t] <= held[t]
          /\ unclaimed' = [unclaimed EXCEPT ![a] = [Distribution!Harvested(a) EXCEPT ![t] = 0]]
          /\ debt' = [debt EXCEPT ![a] = [u \in Token |->
                IF Distribution!Live(a, u) > 0 THEN Distribution!Accrued(stake[a], u)
                ELSE debt[a][u]]]
          /\ held' = [held EXCEPT ![t] = held[t] - Distribution!Harvested(a)[t]]
          /\ UNCHANGED <<total_staked, stake>>
      BY <2>2 DEF Distribution!PayReward
    <3>2. PICK h : h = [Distribution!Harvested(a) EXCEPT ![t] = 0] /\ SetApart(a, h)
      BY <3>1, RewardTaken
    <3>3. StakeSettled(a)
      BY <1>1, <3>1, <3>2, DebtSet
    <3>4. held[t] - Distribution!Harvested(a)[t] \in Nat
      <4>1. held[t] \in Nat /\ Distribution!Harvested(a)[t] \in Nat
        BY <1>2
      <4> QED
        BY <3>1, <4>1
    <3> QED
      BY <1>2, <3>1, <3>3, <3>4
  <2>3. CASE /\ unclaimed' = [unclaimed EXCEPT ![a] = Distribution!Harvested(a)]
             /\ debt' = [debt EXCEPT ![a] = [u \in Token |->
                   IF Distribution!Live(a, u) > 0 THEN Distribution!Accrued(stake[a], u)
                   ELSE debt[a][u]]]
             /\ UNCHANGED <<total_staked, stake, held>>
    <3>1. PICK h : h = Distribution!Harvested(a) /\ SetApart(a, h)
      BY <1>2, <2>3 DEF SetApart
    <3>2. StakeSettled(a)
      BY <1>1, <2>3, <3>1, DebtSet
    <3> QED
      BY <1>2, <2>3, <3>2
  <2> QED
    BY <2>1, <2>2, <2>3 DEF Distribution!ClaimFees, Distribution!CompoundRewards
<1> QED
  BY <1>1, <1>3, SettledKeeps

\* What governance gives to a schedule is taken from its pool.
LEMMA VestKeeps ==
    ASSUME Distribution!FeesConstants, FeesInv, NEW a \in Staker, NEW t \in Token,
           NEW v \in Vestings, Distribution!CreateVestingSchedule(a, t, v)
    PROVE  /\ FeesInv' /\ UNCHANGED <<stake, debt, unclaimed, tokens>>
           /\ \A u \in Token : pools'[u].acc = pools[u].acc
<1> DEFINE s == [beneficiary |-> a, token |-> t, total |-> v.amount, claimed |-> 0,
                 start |-> now, duration |-> v.duration, cliff |-> v.cliff]
           p == pools[t]
           q == [p EXCEPT !.governance = p.governance - v.amount]
<1>1. /\ v.amount > 0 /\ v.duration > 0 /\ pools[t].governance >= v.amount
      /\ pools' = [pools EXCEPT ![t] = q]
      /\ schedules' = Append(schedules, s)
      /\ UNCHANGED <<now, ratios, tokens, collectors, rounds, total_staked, stake, debt,
                     unclaimed, held>>
  BY DEF Distribution!CreateVestingSchedule, Distribution!feeSettings, Distribution!stakeVars
<1>2. /\ pools \in [Token -> FeePool] /\ schedules \in Seq(VestingSchedule)
      /\ rounds \in [Token -> Seq(RoundRecord)] /\ now \in Nat
      /\ held \in [Distribution!AllTokens -> Nat]
  BY DEF FeesInv, PoolsSound, SchedulesSound, FeeSettings
<1>3. /\ v.amount \in Nat /\ v.duration \in Nat \ {0} /\ v.cliff \in Nat
  BY <1>1 DEF Distribution!FeesConstants
<1>4. p.governance \in Nat /\ p.governance - v.amount \in Nat
  <2>1. p.governance \in Nat
    BY <1>2 DEF FeePool
  <2> QED
    BY <1>1, <1>3, <2>1
<1>5. /\ q \in FeePool /\ q.governance = p.governance - v.amount /\ q.acc = p.acc
      /\ q.pending = p.pending /\ q.collected = p.collected
  BY <1>2, <1>4 DEF FeePool
<1>6. /\ s \in VestingSchedule /\ s.token = t /\ s.total = v.amount /\ s.claimed = 0
      /\ s.start = now
  BY <1>2, <1>3 DEF VestingSchedule
<1> HIDE DEF q, s
<1>7. /\ pools' \in [Token -> FeePool] /\ pools'[t] = q
      /\ \A u \in Token \ {t} : pools'[u] = pools[u]
  BY <1>1, <1>2, <1>5
<1>8. SchedulesSound'
  <2>1. schedules' \in Seq(VestingSchedule)
    BY <1>1, <1>2, <1>6
  <2>2. ASSUME NEW k \in DOMAIN schedules'
        PROVE  schedules'[k].claimed <= schedules'[k].total /\ schedules'[k].start <= now
    <3>1. CASE k \in DOMAIN schedules
      <4>1. schedules'[k] = schedules[k]
        BY <1>1, <1>2, <3>1
      <4> QED
        BY <3>1, <4>1 DEF FeesInv, SchedulesSound
    <3>2. CASE k \notin DOMAIN schedules
      <4>1. schedules'[k] = s
        BY <1>1, <1>2, <3>2
      <4> QED
        BY <1>2, <1>3, <1>6, <4>1
    <3> QED
      BY <3>1, <3>2
  <2>3. now' = now
    BY <1>1
  <2> QED
    BY <2>1, <2>2, <2>3 DEF SchedulesSound, VestingSchedule
<1>9. ASSUME NEW u \in Token
      PROVE  TokenBooked(pools'[u], rounds'[u], VestedSum(schedules', u))
  <2>1. TokenBooked(pools[u], rounds[u], VestedSum(schedules, u)) /\ rounds' = rounds
    BY <1>1 DEF FeesInv
  <2>2. /\ VestedSum(schedules, u) \in Int
        /\ VestedSum(schedules', u) = VestedSum(schedules, u)
                                        + (IF s.token = u THEN s.total ELSE 0)
    <3>1. VestedSum(Append(schedules, s), u) = VestedSum(schedules, u)
                                                 + (IF s.token = u THEN s.total ELSE 0)
      BY <1>2, <1>6, VestedAdded
    <3>2. VestedSum(schedules, u) \in Int
      BY <1>2, VestedNumber
    <3> QED
      BY <1>1, <3>1, <3>2
  <2>3. CASE u = t
    <3>1. PICK n \in Nat, g \in Nat, w \in Int :
                  n = v.amount /\ g = p.governance /\ w = VestedSum(schedules, u)
      BY <1>3, <1>4, <2>2
    <3>2. VestedSum(schedules', u) = w + n
      BY <1>6, <2>2, <2>3, <3>1
    <3>3. (g - n) + (w + n) = g + w
      OBVIOUS
    <3>4. pools'[u].governance + VestedSum(schedules', u) = pools[u].governance
                                                               + VestedSum(schedules, u)
      BY <1>5, <1>7, <2>3, <3>1, <3>2, <3>3
    <3> QED
      BY <1>5, <1>7, <2>1, <2>3, <3>4 DEF TokenBooked
  <2>4. CASE u # t
    <3>1. VestedSum(schedules', u) = VestedSum(schedules, u) /\ pools'[u] = pools[u]
      BY <1>6, <1>7, <2>2, <2>4
    <3> QED
      BY <2>1, <3>1
  <2> QED
    BY <2>3, <2>4
<1>10. PoolsSound'
  <2>1. ASSUME NEW u \in Token \ tokens PROVE pools'[u].acc = 0 /\ pools'[u].pending = 0
    BY <1>5, <1>7 DEF FeesInv, PoolsSound
  <2> QED
    BY <1>1, <1>2, <1>7, <2>1 DEF PoolsSound, FeePool, RoundRecord
<1>11. FeeSettings' /\ StakesSound'
  BY <1>1 DEF FeesInv, FeeSettings, StakesSound, Ratios, Distribution!ValidRatios,
     Distribution!Bps
<1>12. held' \in [Distribution!AllTokens -> Nat]
  BY <1>1, <1>2
<1>13. FeesInv'
  BY <1>8, <1>9, <1>10, <1>11, <1>12 DEF FeesInv, Distribution!AllTokens
<1> QED
  BY <1>1, <1>5, <1>7, <1>13

\* Schedules that keep their tokens and totals hold as much.
LEMMA VestedKept ==
    ASSUME NEW s \in Seq(VestingSchedule), NEW r, DOMAIN r = DOMAIN s,
           \A k \in DOMAIN s : r[k].token = s[k].token /\ r[k].total = s[k].total, NEW t
    PROVE  VestedSum(r, t) = VestedSum(s, t)
<1> DEFINE S == OwnSchedules(s, t)
           f == [k \in S |-> s[k].total]
           g == [k \in S |-> r[k].total]
<1>1. OwnSchedules(r, t) = S /\ S \subseteq DOMAIN s
  BY DEF OwnSchedules
<1>2. IsFiniteSet(S)
  <2>1. IsFiniteSet(DOMAIN s)
    <3>1. Len(s) \in Nat /\ DOMAIN s = 1 .. Len(s)
      OBVIOUS
    <3> QED
      BY <3>1, FS_Interval
  <2> QED
    BY <1>1, <2>1, FS_Subset
<1>3. f = g
  BY <1>1
<1> QED
  BY <1>1, <1>3 DEF VestedSum

\* A beneficiary claims what has vested, never more than the schedule holds.
LEMMA ClaimVestedKeeps ==
    ASSUME Distribution!FeesConstants, FeesInv, NEW k \in DOMAIN schedules,
           Distribution!ClaimVested(k)
    PROVE  FeesInv' /\ UNCHANGED <<pools, tokens, stake, debt, unclaimed>>
<1> DEFINE s == schedules[k]
           elapsed == now - s.start
           gross == IF elapsed >= s.duration THEN s.total
                    ELSE (s.total * elapsed) \div s.duration
           due == Distribution!Claimable(s)
<1>1. /\ due > 0 /\ due <= held[s.token]
      /\ schedules' = [schedules EXCEPT ![k].claimed = s.claimed + due]
      /\ held' = [held EXCEPT ![s.token] = held[s.token] - due]
      /\ UNCHANGED <<now, ratios, tokens, collectors, pools, rounds, total_staked, stake, debt,
                     unclaimed>>
  BY DEF Distribution!ClaimVested, Distribution!feeSettings, Distribution!stakeVars
<1>2. /\ schedules \in Seq(VestingSchedule) /\ s \in VestingSchedule /\ s.start <= now
      /\ s.claimed <= s.total /\ now \in Nat /\ held \in [Distribution!AllTokens -> Nat]
  BY DEF FeesInv, SchedulesSound, FeeSettings
<1>3. /\ s.total \in Nat /\ s.claimed \in Nat /\ s.start \in Nat /\ s.duration \in Nat \ {0}
      /\ s.token \in Distribution!AllTokens /\ elapsed \in Nat
  <2> HIDE DEF s
  <2>1. /\ s.total \in Nat /\ s.claimed \in Nat /\ s.start \in Nat /\ s.duration \in Nat \ {0}
        /\ s.token \in Distribution!AllTokens
    BY ONLY <1>2 DEF VestingSchedule, Distribution!AllTokens
  <2>2. elapsed \in Nat
    BY ONLY <1>2, <2>1
  <2> QED
    BY ONLY <2>1, <2>2
<1>4. gross \in Nat /\ gross <= s.total
  <2>1. CASE elapsed >= s.duration
    <3>1. PICK n \in Nat : n = s.total
      BY <1>3
    <3>2. gross = n
      BY <2>1, <3>1
    <3> QED
      BY ONLY <3>1, <3>2
  <2>2. CASE ~ (elapsed >= s.duration)
    <3>1. PICK n \in Nat, e \in Nat, d \in Nat \ {0} :
                  n = s.total /\ e = elapsed /\ d = s.duration
      BY <1>3
    <3>2. e + 0 <= d
      BY <1>3, <2>2, <3>1
    <3>3. (n * e) \div d \in Nat /\ (n * 0) \div d \in Nat
          /\ (n * e) \div d + (n * 0) \div d <= n
      BY <3>2, PartsWithin
    <3>4. (n * e) \div d <= n
      BY <3>3
    <3>5. gross = (n * e) \div d
      BY <2>2, <3>1
    <3> QED
      BY <3>1, <3>3, <3>4, <3>5
  <2> QED
    BY <2>1, <2>2
<1>5. due = gross - s.claimed
  BY DEF Distribution!Claimable
<1> HIDE DEF elapsed, gross, due
<1>6. due \in Nat /\ s.claimed + due \in Nat /\ s.claimed + due <= s.total
  BY <1>1, <1>3, <1>4, <1>5
<1> DEFINE r == [s EXCEPT !.claimed = s.claimed + due]
<1>7. /\ r \in VestingSchedule /\ r.token = s.token /\ r.total = s.total
      /\ r.claimed = s.claimed + due /\ r.start = s.start
  BY <1>2, <1>6 DEF VestingSchedule
<1>8. schedules' = [schedules EXCEPT ![k] = r]
  BY <1>1
<1> HIDE DEF r
<1>9. /\ schedules' \in Seq(VestingSchedule) /\ DOMAIN schedules' = DOMAIN schedules
      /\ schedules'[k] = r /\ \A j \in DOMAIN schedules : j # k => schedules'[j] = schedules[j]
  BY <1>2, <1>7, <1>8
<1>10. SchedulesSound'
  <2>1. ASSUME NEW j \in DOMAIN schedules
        PROVE  schedules'[j].claimed <= schedules'[j].total /\ schedules'[j].start <= now
    <3>1. schedules[j].claimed <= schedules[j].total /\ schedules[j].start <= now
      BY DEF FeesInv, SchedulesSound
    <3> QED
      BY <1>2, <1>6, <1>7, <1>9, <3>1
  <2> QED
    BY <1>1, <1>9, <2>1 DEF SchedulesSound, VestingSchedule
<1>11. ASSUME NEW t \in Token
       PROVE  TokenBooked(pools'[t], rounds'[t], VestedSum(schedules', t))
  <2>1. PICK new : new = schedules'
    OBVIOUS
  <2>2. \A j \in DOMAIN schedules : new[j].token = schedules[j].token
                                    /\ new[j].total = schedules[j].total
    BY <1>7, <1>9, <2>1
  <2>3. DOMAIN new = DOMAIN schedules
    BY <1>9, <2>1
  <2>4. VestedSum(new, t) = VestedSum(schedules, t)
    BY <1>2, <2>2, <2>3, VestedKept
  <2> QED
    BY <1>1, <2>1, <2>4 DEF FeesInv
<1>12. held' \in [Distribution!AllTokens -> Nat]
  <2>1. held[s.token] - due \in Nat
    BY <1>1, <1>2, <1>3, <1>6, SMTT(30)
  <2> QED
    BY <1>1, <1>2, <1>3, <2>1
<1>13. FeeSettings' /\ StakesSound' /\ PoolsSound'
  BY <1>1, SMTT(30) DEF FeesInv, FeeSettings, StakesSound, PoolsSound, Ratios, Distribution!ValidRatios,
     Distribution!Bps, FeePool, RoundRecord
<1> QED
  BY <1>1, <1>10, <1>11, <1>12, <1>13 DEF FeesInv, Distribution!AllTokens

\* The administrator's settings, an emergency withdrawal and time.
LEMMA AdministerFees ==
    ASSUME Distribution!FeesConstants, FeesInv,
           \/ Distribution!Configure
           \/ \E t \in Distribution!AllTokens, amount \in Withdrawals :
                 Distribution!EmergencyWithdraw(t, amount)
           \/ Distribution!Tick
    PROVE  FeesInv' /\ UNCHANGED <<pools, stake, debt, unclaimed>> /\ tokens \subseteq tokens'
<1>1. /\ UNCHANGED <<pools, rounds, total_staked, stake, debt, unclaimed, schedules>>
      /\ tokens \subseteq tokens' /\ tokens' \subseteq Token
      /\ collectors' \subseteq Collector /\ ratios' \in Ratios
      /\ Distribution!ValidRatios(ratios')
      /\ now' \in 0 .. MaxNow /\ now' >= now
      /\ held' \in [Distribution!AllTokens -> Nat]
  <2>1. /\ now \in 0 .. MaxNow /\ MaxNow \in Nat /\ ratios \in Ratios
        /\ Distribution!ValidRatios(ratios)
        /\ tokens \subseteq Token /\ collectors \subseteq Collector
        /\ held \in [Distribution!AllTokens -> Nat]
    BY DEF FeesInv, FeeSettings, Distribution!FeesConstants
  <2>2. CASE Distribution!Configure
    <3>1. UNCHANGED <<now, pools, rounds, total_staked, stake, debt, unclaimed, schedules, held>>
      BY <2>2 DEF Distribution!Configure, Distribution!stakeVars
    <3>2. /\ tokens' = tokens \/ \E t \in Token : tokens' = tokens \cup {t}
          /\ collectors' = collectors
                \/ \E c \in Collector : collectors' \in {collectors \cup {c}, collectors \ {c}}
          /\ ratios' = ratios
                \/ \E r \in RatioChoices : Distribution!ValidRatios(r) /\ ratios' = r
      BY <2>2 DEF Distribution!Configure
    <3>3. ratios' \in Ratios /\ Distribution!ValidRatios(ratios')
      BY <2>1, <3>2 DEF Distribution!FeesConstants, Ratios
    <3> QED
      BY <2>1, <3>1, <3>2, <3>3
  <2>3. ASSUME NEW t \in Distribution!AllTokens, NEW amount \in Withdrawals,
               Distribution!EmergencyWithdraw(t, amount)
        PROVE  /\ UNCHANGED <<now, ratios, tokens, collectors, pools, rounds, total_staked, stake,
                              debt, unclaimed, schedules>>
               /\ held' \in [Distribution!AllTokens -> Nat]
    <3>1. /\ amount \in 0 .. held[t] /\ held' = [held EXCEPT ![t] = held[t] - amount]
          /\ UNCHANGED <<now, ratios, tokens, collectors, pools, rounds, total_staked, stake,
                         debt, unclaimed, schedules>>
      BY <2>3 DEF Distribution!EmergencyWithdraw, Distribution!feeSettings,
         Distribution!stakeVars
    <3>2. held[t] \in Nat
      BY <2>1
    <3>3. held[t] - amount \in Nat
      BY <3>1, <3>2
    <3> QED
      BY <2>1, <3>1, <3>3
  <2>4. CASE Distribution!Tick
    <3>1. /\ now < MaxNow /\ now' = now + 1
          /\ UNCHANGED <<ratios, tokens, collectors, pools, rounds, total_staked, stake, debt,
                         unclaimed, schedules, held>>
      BY <2>4 DEF Distribution!Tick, Distribution!feeVars, Distribution!feeSettings,
         Distribution!stakeVars
    <3> QED
      BY <2>1, <3>1
  <2>5. CASE \E t \in Distribution!AllTokens, amount \in Withdrawals :
                Distribution!EmergencyWithdraw(t, amount)
    BY <2>1, <2>3, <2>5
  <2> QED
    BY <2>2, <2>4, <2>5
<1>2. FeeSettings'
  BY <1>1 DEF FeeSettings, Ratios, Distribution!ValidRatios, Distribution!Bps
<1>3. StakesSound'
  BY <1>1 DEF FeesInv, StakesSound
<1>4. PoolsSound'
  BY <1>1 DEF FeesInv, PoolsSound, FeePool, RoundRecord
<1>5. SchedulesSound'
  <2>1. ASSUME NEW k \in DOMAIN schedules PROVE schedules[k].start <= now'
    <3>1. schedules[k].start <= now /\ schedules[k] \in VestingSchedule /\ now \in Nat
      BY DEF FeesInv, SchedulesSound, FeeSettings
    <3>2. schedules[k].start \in Nat
      BY <3>1 DEF VestingSchedule
    <3> QED
      BY <1>1, <3>1, <3>2
  <2> QED
    BY <1>1, <2>1 DEF FeesInv, SchedulesSound, VestingSchedule
<1>6. \A t \in Token : TokenBooked(pools'[t], rounds'[t], VestedSum(schedules', t))
  BY <1>1 DEF FeesInv
<1> QED
  BY <1>1, <1>2, <1>3, <1>4, <1>5, <1>6 DEF FeesInv, Distribution!AllTokens

\* What FairShare says of a staker and a token.
FairFor(a, t) ==
    LET share == stake[a] * (pools'[t].acc - pools[t].acc)
    IN  /\ Distribution!Owed(a, t)' <= Distribution!Owed(a, t)
                                           + (share + Precision - 1) \div Precision
        /\ Distribution!Owed(a, t)' >= Distribution!Owed(a, t) \/ Distribution!Owed(a, t)' = 0

\* What is owed is a number.
LEMMA OwedNumber ==
    ASSUME Distribution!FeesConstants, FeesInv, NEW a \in Staker, NEW t \in Token
    PROVE  Distribution!Owed(a, t) \in Nat
<1>1. unclaimed[a][t] \in Nat /\ Distribution!Live(a, t) \in Nat
  BY StakerNumbers
<1> QED
  BY <1>1 DEF Distribution!Owed

\* It is fair that the same is owed, or nothing.
LEMMA FairStill ==
    ASSUME Distribution!FeesConstants, FeesInv, NEW a \in Staker, NEW t \in Token,
           pools'[t].acc = pools[t].acc,
           Distribution!Owed(a, t)' \in {Distribution!Owed(a, t), 0}
    PROVE  FairFor(a, t)
<1>1. /\ stake[a] \in Nat /\ pools[t].acc \in Nat /\ Distribution!Owed(a, t) \in Nat
      /\ Precision \in Nat \ {0}
  BY StakerNumbers, OwedNumber DEF Distribution!FeesConstants
<1> DEFINE share == stake[a] * (pools'[t].acc - pools[t].acc)
<1>2. share = 0
  <2>1. pools'[t].acc - pools[t].acc = 0
    BY <1>1
  <2> QED
    BY <1>1, <2>1
<1>3. (share + Precision - 1) \div Precision \in Nat
  <2>1. share + Precision - 1 \in Nat
    BY <1>1, <1>2
  <2> HIDE DEF share
  <2> QED
    BY <1>1, <2>1, DivisionBounds
<1> DEFINE u == (share + Precision - 1) \div Precision
<1>4. PICK o \in Nat : o = Distribution!Owed(a, t)
  BY <1>1
<1>5. Distribution!Owed(a, t)' = o \/ Distribution!Owed(a, t)' = 0
  BY <1>4
<1>6. u \in Nat
  BY <1>3
<1> HIDE DEF u
<1>7. o <= o + u /\ 0 <= o + u /\ o >= o
  BY <1>6
<1> HIDE DEF share
<1> QED
  BY <1>4, <1>5, <1>7 DEF FairFor, u, share

\* A round adds at most the share of the stake, rounded up.
LEMMA FairRound ==
    ASSUME Distribution!FeesConstants, FeesInv, NEW a \in Staker, NEW t \in Token,
           UNCHANGED <<tokens, stake, debt, unclaimed>>,
           NEW more \in Nat, pools'[t].acc = pools[t].acc + more
    PROVE  FairFor(a, t)
<1>1. /\ stake[a] \in Nat /\ pools[t].acc \in Nat /\ debt[a][t] \in Nat
      /\ unclaimed[a][t] \in Nat /\ Precision \in Nat \ {0}
  BY StakerNumbers DEF Distribution!FeesConstants
<1>2. PICK s \in Nat, c \in Nat, d \in Nat, w \in Nat :
              s = stake[a] /\ c = pools[t].acc /\ d = debt[a][t] /\ w = unclaimed[a][t]
  BY <1>1
<1>3. PICK n \in Nat, m \in Nat : n = s * c /\ m = s * more
  <2>1. s * c \in Nat /\ s * more \in Nat
    OBVIOUS
  <2> QED
    BY <2>1
<1>4. n + m = s * (c + more) /\ m = s * ((c + more) - c)
  <2>1. (c + more) - c = more /\ s * (c + more) = s * c + s * more
    OBVIOUS
  <2> QED
    BY <1>3, <2>1
<1>5. PICK q \in Nat, r \in Nat, u \in Nat :
              /\ q = n \div Precision /\ r = (n + m) \div Precision
              /\ u = (m + Precision - 1) \div Precision
              /\ q <= r /\ r <= q + u
  <2>1. n + m \in Nat /\ m + Precision - 1 \in Nat
    BY <1>1
  <2>2. /\ n \div Precision \in Nat /\ (n + m) \div Precision \in Nat
        /\ (m + Precision - 1) \div Precision \in Nat
    BY <1>1, <2>1, DivisionBounds
  <2>3. /\ n \div Precision <= (n + m) \div Precision
        /\ (n + m) \div Precision
              <= n \div Precision + (m + Precision - 1) \div Precision
    BY <1>1, QuotientGrows
  <2> QED
    BY <2>2, <2>3
<1> DEFINE before == IF s > 0 /\ t \in tokens /\ q > d THEN q - d ELSE 0
           after == IF s > 0 /\ t \in tokens /\ r > d THEN r - d ELSE 0
<1>6. Distribution!Accrued(stake[a], t) = q /\ Distribution!Accrued(stake[a], t)' = r
  BY <1>2, <1>3, <1>4, <1>5 DEF Distribution!Accrued
<1>7. Distribution!Live(a, t) = before /\ Distribution!Live(a, t)' = after
  BY <1>2, <1>6 DEF Distribution!Live
<1>8. Distribution!Owed(a, t) = w + before /\ Distribution!Owed(a, t)' = w + after
  BY <1>2, <1>7 DEF Distribution!Owed
<1>9. w + after <= (w + before) + u /\ w + after >= w + before
  BY <1>5
<1>10. FairFor(a, t) <=> /\ Distribution!Owed(a, t)' <= Distribution!Owed(a, t) + u
                         /\ Distribution!Owed(a, t)' >= Distribution!Owed(a, t)
                               \/ Distribution!Owed(a, t)' = 0
  <2>1. stake[a] * (pools'[t].acc - pools[t].acc) = m
    BY <1>2, <1>4
  <2> QED
    BY <1>5, <2>1 DEF FairFor
<1> HIDE DEF before, after
<1> QED
  BY <1>8, <1>9, <1>10

\* Settling a stake owes nobody more.
LEMMA FairSettled ==
    ASSUME Distribution!FeesConstants, FeesInv, NEW a \in Staker, StakeSettled(a),
           UNCHANGED <<pools, tokens>>, NEW b \in Staker, NEW t \in Token
    PROVE  FairFor(b, t)
<1>1. CASE b = a
  <2>1. Distribution!Owed(a, t)' = unclaimed'[a][t] + 0
    BY DEF StakeSettled, Distribution!Owed
  <2>2. unclaimed'[a][t] \in {Distribution!Owed(a, t), 0} /\ Distribution!Owed(a, t) \in Nat
    BY OwedNumber DEF StakeSettled
  <2>3. Distribution!Owed(a, t)' \in {Distribution!Owed(a, t), 0}
    BY <2>1, <2>2
  <2> QED
    BY <1>1, <2>3, FairStill
<1>2. CASE b # a
  <2>1. stake'[b] = stake[b] /\ debt'[b] = debt[b] /\ unclaimed'[b] = unclaimed[b]
    BY <1>2 DEF StakeSettled
  <2>2. Distribution!Live(b, t)' = Distribution!Live(b, t)
    BY <2>1 DEF Distribution!Live, Distribution!Accrued
  <2>3. Distribution!Owed(b, t)' = Distribution!Owed(b, t)
    BY <2>1, <2>2 DEF Distribution!Owed
  <2> QED
    BY <2>3, FairStill
<1> QED
  BY <1>1, <1>2

\* Registering a token owes nobody anything of it: its accumulator is zero.
LEMMA FairRegistered ==
    ASSUME Distribution!FeesConstants, FeesInv, UNCHANGED <<pools, stake, debt, unclaimed>>,
           tokens \subseteq tokens', NEW a \in Staker, NEW t \in Token
    PROVE  FairFor(a, t)
<1>1. Distribution!Live(a, t)' = Distribution!Live(a, t)
  <2>1. Distribution!Accrued(stake[a], t)' = Distribution!Accrued(stake[a], t)
    BY DEF Distribution!Accrued
  <2>2. CASE t \in tokens \/ t \notin tokens'
    BY <2>1, <2>2 DEF Distribution!Live
  <2>3. CASE t \notin tokens
    <3>1. pools[t].acc = 0 /\ stake[a] \in Nat /\ debt[a][t] \in Nat
          /\ Precision \in Nat \ {0}
      <4>1. pools[t].acc = 0
        BY <2>3 DEF FeesInv, PoolsSound
      <4>2. stake[a] \in Nat /\ debt[a][t] \in Nat
        BY StakerNumbers
      <4>3. Precision \in Nat \ {0}
        BY DEF Distribution!FeesConstants
      <4> QED
        BY ONLY <4>1, <4>2, <4>3
    <3>2. stake[a] * pools[t].acc = 0
      <4>1. PICK n \in Nat : n = stake[a]
        BY <3>1
      <4>2. n * 0 = 0
        BY ONLY n \in Nat
      <4> QED
        BY ONLY <3>1, <4>1, <4>2
    <3>3. 0 \div Precision = 0
      <4>1. 0 \div Precision \in Nat /\ Precision * (0 \div Precision) <= 0
        BY <3>1, DivisionBounds
      <4>2. PICK z \in Nat : z = 0 \div Precision
        BY <4>1
      <4>3. Precision * z <= 0
        BY <4>1, <4>2
      <4>4. ASSUME z # 0 PROVE FALSE
        <5>1. z - 1 \in Nat
          BY <4>4
        <5>2. Precision * (z - 1) \in Nat /\ Precision * z = Precision * (z - 1) + Precision
          BY <3>1, <5>1
        <5> QED
          BY <3>1, <4>3, <5>2
      <4> QED
        BY <4>2, <4>4
    <3>4. Distribution!Accrued(stake[a], t) = 0
      BY <3>2, <3>3 DEF Distribution!Accrued
    <3>5. ~ (Distribution!Accrued(stake[a], t)' > debt'[a][t])
      BY <2>1, <3>1, <3>4
    <3> QED
      BY <2>3, <3>5 DEF Distribution!Live
  <2> QED
    BY <2>2, <2>3
<1>2. Distribution!Owed(a, t)' = Distribution!Owed(a, t)
  BY <1>1 DEF Distribution!Owed
<1> QED
  BY <1>2, FairStill

\* Every step keeps the invariant and is fair.
LEMMA NextFees ==
    ASSUME Distribution!FeesConstants, FeesInv, [Distribution!Next]_Distribution!vars
    PROVE  FeesInv' /\ Distribution!FairShare
<1>1. SUFFICES FeesInv' /\ \A a \in Staker, t \in Token : FairFor(a, t)
  BY DEF Distribution!FairShare, FairFor
<1>2. ASSUME Accumulated, UNCHANGED <<tokens, stake, debt, unclaimed>>,
             NEW a \in Staker, NEW t \in Token
      PROVE  FairFor(a, t)
  <2>1. PICK more \in Nat : pools'[t].acc = pools[t].acc + more
    BY <1>2 DEF Accumulated
  <2> QED
    BY <1>2, <2>1, FairRound
<1>3. ASSUME NEW who \in Collector \cup {Admin}, NEW t \in Token, NEW amount \in Fees,
             Distribution!CollectFees(who, t, amount)
      PROVE  FeesInv' /\ \A a \in Staker, u \in Token : FairFor(a, u)
  <2>1. FeesInv' /\ Accumulated
    BY <1>3, CollectKeeps
  <2>2. UNCHANGED <<tokens, stake, debt, unclaimed>>
    BY <1>3 DEF Distribution!CollectFees, Distribution!stakeVars
  <2> QED
    BY <1>2, <2>1, <2>2
<1>4. ASSUME NEW chosen \in SUBSET Token, Distribution!DistributeFees(chosen)
      PROVE  FeesInv' /\ \A a \in Staker, u \in Token : FairFor(a, u)
  <2>1. FeesInv' /\ Accumulated
    BY <1>4, DistributeKeeps
  <2>2. UNCHANGED <<tokens, stake, debt, unclaimed>>
    BY <1>4 DEF Distribution!DistributeFees, Distribution!stakeVars
  <2> QED
    BY <1>2, <2>1, <2>2
<1>5. ASSUME NEW a \in Staker,
             \/ \E amount \in Stakes : \/ \E enable \in BOOLEAN :
                                             Distribution!StakeForFees(a, amount, enable)
                                       \/ Distribution!Unstake(a, amount)
             \/ \E t \in Token : Distribution!ClaimFees(a, t) \/ Distribution!CompoundRewards(a, t)
      PROVE  FeesInv' /\ \A b \in Staker, u \in Token : FairFor(b, u)
  <2>1. FeesInv' /\ StakeSettled(a) /\ UNCHANGED <<pools, tokens>>
    BY <1>5, JoinKeeps, LeaveKeeps, ClaimKeeps
  <2> QED
    BY <2>1, FairSettled
<1>6. ASSUME UNCHANGED <<tokens, stake, debt, unclaimed>>,
             \A u \in Token : pools'[u].acc = pools[u].acc,
             NEW a \in Staker, NEW t \in Token
      PROVE  FairFor(a, t)
  <2>1. Distribution!Live(a, t)' = Distribution!Live(a, t)
    BY <1>6 DEF Distribution!Live, Distribution!Accrued
  <2>2. Distribution!Owed(a, t)' = Distribution!Owed(a, t)
    BY <1>6, <2>1 DEF Distribution!Owed
  <2> QED
    BY <1>6, <2>2, FairStill
<1>7. ASSUME NEW a \in Staker, NEW t \in Token, NEW v \in Vestings,
             Distribution!CreateVestingSchedule(a, t, v)
      PROVE  FeesInv' /\ \A b \in Staker, u \in Token : FairFor(b, u)
  BY <1>6, <1>7, VestKeeps
<1>8. ASSUME NEW k \in DOMAIN schedules, Distribution!ClaimVested(k)
      PROVE  FeesInv' /\ \A b \in Staker, u \in Token : FairFor(b, u)
  <2>1. FeesInv' /\ UNCHANGED <<pools, tokens, stake, debt, unclaimed>>
    BY <1>8, ClaimVestedKeeps
  <2> QED
    BY <1>6, <2>1
<1>9. CASE \/ Distribution!Configure
           \/ \E t \in Distribution!AllTokens, amount \in Withdrawals :
                 Distribution!EmergencyWithdraw(t, amount)
           \/ Distribution!Tick
  <2>1. FeesInv' /\ UNCHANGED <<pools, stake, debt, unclaimed>> /\ tokens \subseteq tokens'
    BY <1>9, AdministerFees
  <2> QED
    BY <2>1, FairRegistered
<1>10. CASE UNCHANGED Distribution!vars
  <2>1. UNCHANGED <<now, ratios, tokens, collectors, pools, rounds, total_staked, stake, debt,
                    unclaimed, schedules, held>>
    BY <1>10 DEF Distribution!vars, Distribution!feeVars, Distribution!feeSettings,
       Distribution!stakeVars
  <2>2. FeesInv'
    BY <2>1, SMTT(30) DEF FeesInv, FeeSettings, StakesSound, PoolsSound, SchedulesSound, Ratios,
       Distribution!ValidRatios, Distribution!Bps, FeePool, RoundRecord, VestingSchedule,
       Distribution!AllTokens
  <2> QED
    BY <1>6, <2>1, <2>2
<1> QED
  BY <1>3, <1>4, <1>5, <1>7, <1>8, <1>9, <1>10 DEF Distribution!Next

\* It is an invariant.
LEMMA FeesInvariant ==
    ASSUME Distribution!FeesConstants
    PROVE  Distribution!Spec => []FeesInv
<1>1. Distribution!Init => FeesInv
  BY InitFees
<1>2. FeesInv /\ [Distribution!Next]_Distribution!vars => FeesInv'
  BY NextFees
<1> QED
  BY <1>1, <1>2, PTL DEF Distribution!Spec

\* Fee distribution: the variables keep their types; balances and totals never go below
\* zero.
THEOREM FeesTyped ==
    ASSUME Distribution!FeesConstants
    PROVE  Distribution!Spec => []Distribution!TypeOK
<1>1. FeesInv => Distribution!TypeOK
  BY FeesChecked
<1> QED
  BY <1>1, FeesInvariant, PTL

\* The books of fees, however large the stake: see TokenBooked.
FeesBooked ==
    /\ total_staked = SumFunctionOnSet(stake, Staker)
    /\ \A t \in Token : TokenBooked(pools[t], rounds[t], VestedSum(schedules, t))
    /\ \A k \in DOMAIN schedules : schedules[k].claimed <= schedules[k].total

\* Every fee is in one place, still pending or in the record of a round; what the rounds gave
\* to governance is in its pool or vested, with at most the stakers' share on top; no
\* schedule pays more than it holds: for any stake.  FeesAccounted adds that governance has
\* all of the stakers' share while nothing is accumulated for them.  That follows only while
\* no stake exceeds Precision, 10^12 in the code, which the code does not enforce: beyond it
\* the share that a round gives to the stakers can be lost to rounding altogether.
THEOREM FeesStayBooked ==
    ASSUME Distribution!FeesConstants
    PROVE  Distribution!Spec =>
              [](FeesBooked /\ (MaxStaked <= Precision => Distribution!FeesAccounted))
<1>1. FeesInv => FeesBooked
  BY DEF FeesInv, StakesSound, SchedulesSound, FeesBooked
<1>2. FeesInv => (MaxStaked <= Precision => Distribution!FeesAccounted)
  BY FeesChecked
<1> QED
  BY <1>1, <1>2, FeesInvariant, PTL

\* Staking, unstaking, claims, compounding and registrations take nothing that was earned
\* and share no past round: only a round adds to what is owed, at most the share of the
\* stake rounded up, and only a payment of all of it takes away.
THEOREM SharesAreFair ==
    ASSUME Distribution!FeesConstants
    PROVE  Distribution!Spec => [][Distribution!FairShare]_Distribution!vars
<1>1. FeesInv /\ [Distribution!Next]_Distribution!vars
          => [Distribution!FairShare]_Distribution!vars
  BY NextFees
<1> QED
  BY <1>1, FeesInvariant, PTL DEF Distribution!Spec
-----------------------------------------------------------------------------
(***************************************************************************)
(* The asset registry.  An index is read one entry after the other and     *)
(* written anew without the asset: the table of what is written after each *)
(* entry exists, and holds the entries besides the asset.                  *)
(***************************************************************************)

\* What the loop over list has written after n entries, by its table.
Passed(list, a, t, n) ==
    IF n = 0 THEN <<>>
    ELSE IF list[n] = a THEN t[n - 1] ELSE Append(t[n - 1], list[n])

\* The loop has a table up to every entry.
LEMMA LoopTable ==
    ASSUME NEW S, NEW list \in Seq(S), NEW a
    PROVE  LET t == CHOOSE t : t = [n \in 0 .. Len(list) |-> Passed(list, a, t, n)]
           IN  t = [n \in 0 .. Len(list) |-> Passed(list, a, t, n)]
<1> DEFINE Fits(m, t) == t = [n \in 0 .. m |-> Passed(list, a, t, n)]
           Good == {m \in Nat : \E t : Fits(m, t)}
<1>1. 0 \in Good
  <2>1. Fits(0, [n \in 0 .. 0 |-> <<>>])
    BY DEF Passed
  <2> QED
    BY <2>1
<1>2. ASSUME NEW m \in Nat, m \in Good PROVE m + 1 \in Good
  <2>1. PICK t : Fits(m, t)
    BY <1>2
  <2> DEFINE u == [n \in 0 .. m + 1 |-> IF n = m + 1 THEN Passed(list, a, t, n) ELSE t[n]]
  <2>2. DOMAIN u = 0 .. m + 1 /\ \A n \in 0 .. m : u[n] = t[n]
    OBVIOUS
  <2>3. ASSUME NEW n \in 0 .. m + 1 PROVE u[n] = Passed(list, a, u, n)
    <3>1. CASE n = m + 1
      <4>1. u[n] = Passed(list, a, t, n)
        BY <3>1
      <4>2. n # 0 /\ n - 1 \in 0 .. m
        BY <3>1
      <4>3. u[n - 1] = t[n - 1]
        BY <2>2, <4>2
      <4> QED
        BY <4>1, <4>2, <4>3 DEF Passed
    <3>2. CASE n \in 0 .. m
      <4>1. u[n] = Passed(list, a, t, n)
        BY <2>1, <3>2
      <4>2. n # 0 => n - 1 \in 0 .. m
        BY <3>2
      <4>3. n # 0 => u[n - 1] = t[n - 1]
        BY <2>2, <4>2
      <4> QED
        BY <4>1, <4>3 DEF Passed
    <3> QED
      BY <3>1, <3>2
  <2>4. u = [n \in 0 .. m + 1 |-> u[n]]
    OBVIOUS
  <2>5. [n \in 0 .. m + 1 |-> u[n]] = [n \in 0 .. m + 1 |-> Passed(list, a, u, n)]
    <3> HIDE DEF u
    <3> QED
      BY <2>3
  <2>6. Fits(m + 1, u)
    <3> HIDE DEF u
    <3> QED
      BY <2>4, <2>5
  <2> QED
    <3> HIDE DEF Fits, u
    <3> QED
      BY <2>6
<1>3. Nat \subseteq Good
  <2> HIDE DEF Good
  <2> QED
    BY <1>1, <1>2, NumberInduction
<1>4. \E t : Fits(Len(list), t)
  BY <1>3
<1> QED
  BY <1>4

\* What the loop has written after n entries of list: the entries besides the asset, and
\* none twice that list does not hold twice.
Written(S, list, a, n, w) ==
    /\ w \in Seq(S)
    /\ {w[i] : i \in 1 .. Len(w)} = {list[i] : i \in 1 .. n} \ {a}
    /\ Registry!IsInjective(list) => \A i, j \in 1 .. Len(w) : w[i] = w[j] => i = j

\* Nothing is written at first.
LEMMA WrittenNone ==
    ASSUME NEW S, NEW list \in Seq(S), NEW a
    PROVE  Written(S, list, a, 0, <<>>)
BY DEF Written

\* The asset itself is passed over.
LEMMA WrittenOver ==
    ASSUME NEW S, NEW list \in Seq(S), NEW a, NEW m \in 0 .. Len(list) - 1, NEW w,
           Written(S, list, a, m, w), list[m + 1] = a
    PROVE  Written(S, list, a, m + 1, w)
<1>1. {list[i] : i \in 1 .. m + 1} = {list[i] : i \in 1 .. m} \cup {a}
  <2>1. 1 .. m + 1 = 1 .. m \cup {m + 1}
    OBVIOUS
  <2> QED
    BY <2>1
<1> QED
  BY <1>1 DEF Written

\* Another entry is written last.
LEMMA WrittenNext ==
    ASSUME NEW S, NEW list \in Seq(S), NEW a, NEW m \in 0 .. Len(list) - 1, NEW old,
           Written(S, list, a, m, old), list[m + 1] # a
    PROVE  Written(S, list, a, m + 1, Append(old, list[m + 1]))
<1>1. PICK x : x = list[m + 1] /\ x \in S /\ x # a
  OBVIOUS
<1>2. PICK new : new = Append(old, x)
  OBVIOUS
<1>3. /\ old \in Seq(S) /\ Len(old) \in Nat
      /\ {old[i] : i \in 1 .. Len(old)} = {list[i] : i \in 1 .. m} \ {a}
      /\ Registry!IsInjective(list) => \A i, j \in 1 .. Len(old) : old[i] = old[j] => i = j
  <2>1. /\ old \in Seq(S)
        /\ {old[i] : i \in 1 .. Len(old)} = {list[i] : i \in 1 .. m} \ {a}
        /\ Registry!IsInjective(list) =>
              \A i, j \in 1 .. Len(old) : old[i] = old[j] => i = j
    BY ONLY Written(S, list, a, m, old), Zenon DEF Written
  <2>2. Len(old) \in Nat
    BY ONLY <2>1
  <2> QED
    BY ONLY <2>1, <2>2, Zenon
<1>4. /\ new \in Seq(S) /\ Len(new) = Len(old) + 1
      /\ \A i \in 1 .. Len(old) : new[i] = old[i]
      /\ new[Len(old) + 1] = x
  BY <1>1, <1>2, <1>3
<1>5. {new[i] : i \in 1 .. Len(new)} = {old[i] : i \in 1 .. Len(old)} \cup {x}
  <2>1. PICK k \in Nat : k = Len(old)
    BY <1>3
  <2>2. /\ k + 1 \in 1 .. k + 1 /\ 1 .. k \subseteq 1 .. k + 1
        /\ \A i \in 1 .. k + 1 : i \in 1 .. k \/ i = k + 1
    BY ONLY <2>1
  <2>3. Len(new) = k + 1 /\ new[k + 1] = x /\ \A i \in 1 .. k : new[i] = old[i]
    BY <1>4, <2>1
  <2> QED
    BY ONLY <2>1, <2>2, <2>3
<1>6. {list[i] : i \in 1 .. m + 1} = {list[i] : i \in 1 .. m} \cup {x}
  <2>1. 1 .. m + 1 = 1 .. m \cup {m + 1}
    OBVIOUS
  <2> QED
    BY <2>1, <1>1
<1>7. ASSUME Registry!IsInjective(list)
      PROVE  \A i, j \in 1 .. Len(new) : new[i] = new[j] => i = j
  <2>1. x \notin {list[i] : i \in 1 .. m}
    BY <1>1, <1>7 DEF Registry!IsInjective
  <2>2. \A i \in 1 .. Len(old) : old[i] # x
    BY <1>3, <2>1
  <2>3. \A i, j \in 1 .. Len(old) : old[i] = old[j] => i = j
    BY <1>3, <1>7
  <2> QED
    BY ONLY <1>3, <1>4, <2>2, <2>3
<1>8. {new[i] : i \in 1 .. Len(new)} = {list[i] : i \in 1 .. m + 1} \ {a}
  BY <1>1, <1>3, <1>5, <1>6
<1>9. Written(S, list, a, m + 1, new)
  BY ONLY <1>4, <1>7, <1>8, Zenon DEF Written
<1> QED
  BY <1>1, <1>2, <1>9

\* What the loop writes: every entry but the asset, and none twice that was not.
LEMMA WithoutOne ==
    ASSUME NEW S, NEW list \in Seq(S), NEW a
    PROVE  /\ Registry!Without(list, a) \in Seq(S)
           /\ Registry!ToSet(Registry!Without(list, a)) = Registry!ToSet(list) \ {a}
           /\ Registry!IsInjective(list) => Registry!IsInjective(Registry!Without(list, a))
<1> DEFINE t == CHOOSE t : t = [n \in 0 .. Len(list) |-> Passed(list, a, t, n)]
           Fine(n) == n <= Len(list) => Written(S, list, a, n, t[n])
           Good == {n \in Nat : Fine(n)}
<1>1. t = [n \in 0 .. Len(list) |-> Passed(list, a, t, n)]
  BY LoopTable
<1>2. Registry!Without(list, a) = t[Len(list)]
  BY DEF Registry!Without, Passed
<1> HIDE DEF t
<1>3. \A n \in 0 .. Len(list) : t[n] = Passed(list, a, t, n)
  <2>1. PICK v : v = t
    OBVIOUS
  <2>2. v = [n \in 0 .. Len(list) |-> Passed(list, a, v, n)]
    BY <1>1, <2>1
  <2>3. \A n \in 0 .. Len(list) : v[n] = Passed(list, a, v, n)
    BY ONLY <2>2
  <2> QED
    BY <2>1, <2>3
<1>4. Fine(0)
  <2>1. t[0] = <<>>
    BY <1>3 DEF Passed
  <2> QED
    BY <2>1, WrittenNone
<1>5. ASSUME NEW m \in Nat, Fine(m) PROVE Fine(m + 1)
  <2>1. SUFFICES ASSUME m + 1 <= Len(list) PROVE Written(S, list, a, m + 1, t[m + 1])
    OBVIOUS
  <2>2. m \in 0 .. Len(list) - 1 /\ m + 1 \in 0 .. Len(list) /\ m + 1 # 0 /\ (m + 1) - 1 = m
        /\ m <= Len(list)
    BY <2>1
  <2>3. Written(S, list, a, m, t[m])
    BY <1>5, <2>2
  <2>4. t[m + 1] = IF list[m + 1] = a THEN t[m] ELSE Append(t[m], list[m + 1])
    BY <1>3, <2>2 DEF Passed
  <2>5. CASE list[m + 1] = a
    BY <2>2, <2>3, <2>4, <2>5, WrittenOver
  <2>6. CASE list[m + 1] # a
    BY <2>2, <2>3, <2>4, <2>6, WrittenNext
  <2> QED
    BY <2>5, <2>6
<1>6. Nat \subseteq Good
  <2>1. 0 \in Good /\ \A m \in Nat : m \in Good => m + 1 \in Good
    <3> HIDE DEF Fine
    <3> QED
      BY <1>4, <1>5
  <2> HIDE DEF Good
  <2> QED
    BY <2>1, NumberInduction
<1>7. Fine(Len(list))
  <2> HIDE DEF Fine
  <2> QED
    BY <1>6
<1>8. PICK w : w = t[Len(list)] /\ Written(S, list, a, Len(list), w)
  BY <1>7
<1>9. /\ w \in Seq(S) /\ {w[i] : i \in 1 .. Len(w)} = {list[i] : i \in 1 .. Len(list)} \ {a}
      /\ Registry!IsInjective(list) => \A i, j \in 1 .. Len(w) : w[i] = w[j] => i = j
  BY <1>8 DEF Written
<1>10. Registry!ToSet(w) = Registry!ToSet(list) \ {a}
  <2>1. DOMAIN w = 1 .. Len(w) /\ DOMAIN list = 1 .. Len(list)
    BY <1>9
  <2>2. Registry!ToSet(w) = {w[i] : i \in 1 .. Len(w)}
    BY ONLY <2>1 DEF Registry!ToSet
  <2>3. Registry!ToSet(list) = {list[i] : i \in 1 .. Len(list)}
    BY ONLY <2>1 DEF Registry!ToSet
  <2> QED
    BY ONLY <1>9, <2>2, <2>3
<1>11. Registry!IsInjective(list) => Registry!IsInjective(w)
  BY <1>9 DEF Registry!IsInjective
<1> QED
  BY <1>2, <1>8, <1>9, <1>10, <1>11

\* What is listed last is one more entry, listed once if it was not listed.
LEMMA ListedLast ==
    ASSUME NEW S, NEW list \in Seq(S), NEW a \in S, a \notin Registry!ToSet(list)
    PROVE  /\ Append(list, a) \in Seq(S)
           /\ Registry!ToSet(Append(list, a)) = Registry!ToSet(list) \cup {a}
           /\ Registry!IsInjective(list) => Registry!IsInjective(Append(list, a))
<1>1. PICK w : w = Append(list, a)
  OBVIOUS
<1>2. /\ w \in Seq(S) /\ Len(w) = Len(list) + 1 /\ Len(list) \in Nat
      /\ \A i \in 1 .. Len(list) : w[i] = list[i]
      /\ w[Len(list) + 1] = a
      /\ DOMAIN w = 1 .. Len(w) /\ DOMAIN list = 1 .. Len(list)
  BY <1>1
<1>3. Registry!ToSet(w) = Registry!ToSet(list) \cup {a}
  BY ONLY <1>2 DEF Registry!ToSet
<1>4. \A i \in 1 .. Len(list) : list[i] # a
  BY <1>2 DEF Registry!ToSet
<1>5. ASSUME Registry!IsInjective(list) PROVE Registry!IsInjective(w)
  <2>1. \A i, j \in 1 .. Len(list) : list[i] = list[j] => i = j
    BY <1>2, <1>5 DEF Registry!IsInjective
  <2>2. \A i, j \in 1 .. Len(w) : w[i] = w[j] => i = j
    BY ONLY <1>2, <1>4, <2>1
  <2> QED
    BY <1>2, <2>2 DEF Registry!IsInjective
<1> QED
  BY <1>1, <1>2, <1>3, <1>5

\* new is index with another list under a key, of the assets of listed: the other lists stay.
Relisted(K, S, index, key, new, listed) ==
    /\ new \in [K -> Seq(S)]
    /\ \A k \in K : /\ k # key => new[k] = index[k]
                    /\ Registry!IsInjective(index[k]) => Registry!IsInjective(new[k])
    /\ Registry!ToSet(new[key]) = listed

\* An index with an asset listed under a key: the other lists stay.
LEMMA IndexAdded ==
    ASSUME NEW K, NEW S, NEW index \in [K -> Seq(S)], NEW key \in K, NEW a \in S, NEW new,
           new = Registry!AddToIndex(index, key, a)
    PROVE  Relisted(K, S, index, key, new, Registry!ToSet(index[key]) \cup {a})
<1>1. CASE a \in Registry!ToSet(index[key])
  BY <1>1 DEF Registry!AddToIndex, Relisted
<1>2. CASE a \notin Registry!ToSet(index[key])
  <2>1. new = [index EXCEPT ![key] = Append(index[key], a)]
    BY <1>2 DEF Registry!AddToIndex
  <2>2. PICK w : w = Append(index[key], a)
    OBVIOUS
  <2>3. /\ w \in Seq(S) /\ Registry!ToSet(w) = Registry!ToSet(index[key]) \cup {a}
        /\ Registry!IsInjective(index[key]) => Registry!IsInjective(w)
    BY <1>2, <2>2, ListedLast
  <2>4. new = [index EXCEPT ![key] = w]
    BY <2>1, <2>2
  <2> QED
    BY ONLY <2>3, <2>4, index \in [K -> Seq(S)], key \in K DEF Relisted
<1> QED
  BY <1>1, <1>2

\* An index with an asset taken off the list under a key: the other lists stay.
LEMMA IndexRemoved ==
    ASSUME NEW K, NEW S, NEW index \in [K -> Seq(S)], NEW key \in K, NEW a \in S, NEW new,
           new = Registry!RemoveFromIndex(index, key, a)
    PROVE  Relisted(K, S, index, key, new, Registry!ToSet(index[key]) \ {a})
<1>1. new = [index EXCEPT ![key] = Registry!Without(index[key], a)]
  BY DEF Registry!RemoveFromIndex
<1>2. PICK w : w = Registry!Without(index[key], a)
  OBVIOUS
<1>3. /\ w \in Seq(S) /\ Registry!ToSet(w) = Registry!ToSet(index[key]) \ {a}
      /\ Registry!IsInjective(index[key]) => Registry!IsInjective(w)
  BY <1>2, WithoutOne
<1>4. new = [index EXCEPT ![key] = w]
  BY <1>1, <1>2
<1> QED
  BY ONLY <1>3, <1>4, index \in [K -> Seq(S)], key \in K DEF Relisted

\* The lists of an index are those of the assets known, each once under its key.
IndexOf(K, S, index, known, key) ==
    /\ index \in [K -> Seq(S)]
    /\ \A k \in K : /\ Registry!IsInjective(index[k])
                    /\ Registry!ToSet(index[k]) = {b \in S : b \in known /\ key[b] = k}

\* So they are when an asset was moved from the list of its old key to that of its new one.
LEMMA IndexMoved ==
    ASSUME NEW K, NEW S, NEW index, NEW known, NEW old, NEW later, NEW a \in S, a \in known,
           old[a] \in K, later[a] \in K, \A b \in S : b # a => later[b] = old[b],
           IndexOf(K, S, index, known, old),
           NEW new, new = Registry!Moved(index, a, old[a], later[a])
    PROVE  IndexOf(K, S, new, known, later)
<1>0. index \in [K -> Seq(S)]
  BY DEF IndexOf
<1> PICK from \in K : from = old[a]
  OBVIOUS
<1> PICK to \in K : to = later[a]
  OBVIOUS
<1>1. PICK mid : mid = Registry!RemoveFromIndex(index, from, a)
  OBVIOUS
<1>2. new = Registry!AddToIndex(mid, to, a)
  BY <1>1 DEF Registry!Moved
<1>3. Relisted(K, S, index, from, mid, Registry!ToSet(index[from]) \ {a})
  BY <1>0, <1>1, IndexRemoved
<1>4. mid \in [K -> Seq(S)]
  BY <1>3 DEF Relisted
<1>5. Relisted(K, S, mid, to, new, Registry!ToSet(mid[to]) \cup {a})
  BY <1>2, <1>4, IndexAdded
<1>6. /\ new \in [K -> Seq(S)]
      /\ \A k \in K : Registry!IsInjective(index[k]) => Registry!IsInjective(new[k])
  BY ONLY <1>3, <1>5, from \in K, to \in K DEF Relisted
<1>7. \A k \in K : Registry!IsInjective(new[k])
  BY ONLY <1>6, IndexOf(K, S, index, known, old) DEF IndexOf
<1>8. ASSUME NEW k \in K
      PROVE  Registry!ToSet(new[k]) = {b \in S : b \in known /\ later[b] = k}
  <2>1. /\ k # from => mid[k] = index[k]
        /\ k # to => new[k] = mid[k]
        /\ Registry!ToSet(mid[from]) = Registry!ToSet(index[from]) \ {a}
        /\ Registry!ToSet(new[to]) = Registry!ToSet(mid[to]) \cup {a}
    BY ONLY <1>3, <1>5, k \in K DEF Relisted
  <2>2. PICK was : was = Registry!ToSet(index[k]) /\ was = {b \in S : b \in known /\ old[b] = k}
    BY DEF IndexOf
  <2>3. CASE k = to
    <3>1. Registry!ToSet(mid[k]) = IF k = from THEN was \ {a} ELSE was
      BY <2>1, <2>2
    <3>2. Registry!ToSet(new[k]) = was \cup {a}
      BY <2>1, <2>3, <3>1
    <3>3. was \cup {a} = {b \in S : b \in known /\ later[b] = k}
      BY <2>2, <2>3
    <3> QED
      BY <3>2, <3>3
  <2>4. CASE k # to
    <3>1. Registry!ToSet(new[k]) = was \ {a}
      BY <2>1, <2>2, <2>4
    <3>2. was \ {a} = {b \in S : b \in known /\ later[b] = k}
      BY <2>2, <2>4
    <3> QED
      BY <3>1, <3>2
  <2> QED
    BY <2>3, <2>4
<1> QED
  BY <1>6, <1>7, <1>8 DEF IndexOf
-----------------------------------------------------------------------------
\* What the versions kept of an asset are to be, by its record.
History(kept, data) ==
    /\ Len(kept) = IF data.version < MaxVersions THEN data.version ELSE MaxVersions
    /\ kept[Len(kept)] = data
    /\ \A k \in 1 .. Len(kept) : kept[k].version = data.version - (Len(kept) - k)

\* The next version of a record is kept with those before it.
LEMMA KeptNext ==
    ASSUME Registry!RegistryConstants, NEW R, NEW kept \in Seq(R), NEW data, NEW record \in R,
           data.version \in Nat \ {0}, record.version = data.version + 1, History(kept, data)
    PROVE  /\ Registry!Kept(kept, record) \in Seq(R)
           /\ History(Registry!Kept(kept, record), record)
<1>1. MaxVersions \in Nat \ {0}
  BY DEF Registry!RegistryConstants
<1>2. PICK v \in Nat \ {0} : v = data.version /\ record.version = v + 1
  OBVIOUS
<1>3. PICK n \in Nat \ {0} :
          /\ n = Len(kept) /\ n = IF v < MaxVersions THEN v ELSE MaxVersions
          /\ \A k \in 1 .. n : kept[k].version = v - (n - k)
  BY <1>1, <1>2 DEF History
<1>4. CASE n >= MaxVersions
  <2>1. PICK w : w = Append(Tail(kept), record)
    OBVIOUS
  <2>2. Registry!Kept(kept, record) = w
    BY <1>3, <1>4, <2>1 DEF Registry!Kept
  <2>3. /\ w \in Seq(R) /\ Len(w) = n /\ w[n] = record
        /\ \A k \in 1 .. n - 1 : w[k] = kept[k + 1]
    <3>1. kept # <<>>
      BY <1>3
    <3>2. PICK t : t = Tail(kept)
      OBVIOUS
    <3>3. t \in Seq(R) /\ Len(t) = n - 1 /\ \A k \in 1 .. n - 1 : t[k] = kept[k + 1]
      <4>1. t \in Seq(R) /\ Len(t) = Len(kept) - 1
        BY ONLY <3>1, <3>2, kept \in Seq(R)
      <4>2. \A k \in 1 .. Len(kept) - 1 : t[k] = kept[k + 1]
        BY ONLY <3>1, <3>2, kept \in Seq(R)
      <4> QED
        BY <1>3, <4>1, <4>2
    <3> QED
      BY <1>3, <2>1, <3>2, <3>3
  <2>4. v >= MaxVersions /\ n = MaxVersions
    BY <1>1, <1>3, <1>4
  <2>5. Len(w) = IF record.version < MaxVersions THEN record.version ELSE MaxVersions
    BY <1>1, <1>2, <2>3, <2>4
  <2>6. ASSUME NEW k \in 1 .. Len(w) PROVE w[k].version = record.version - (Len(w) - k)
    <3>1. k \in 1 .. n
      BY <2>3, <2>6
    <3>2. CASE k = n
      BY <1>2, <2>3, <3>2
    <3>3. CASE k \in 1 .. n - 1
      <4>1. k + 1 \in 1 .. n
        BY ONLY n \in Nat \ {0}, <3>3
      <4>2. w[k].version = v - (n - (k + 1))
        BY <1>3, <2>3, <3>3, <4>1
      <4> QED
        BY <1>2, <2>3, <3>1, <4>2
    <3> QED
      BY <1>3, <3>1, <3>2, <3>3
  <2>7. History(w, record)
    BY <2>3, <2>5, <2>6 DEF History
  <2> QED
    BY <2>2, <2>3, <2>7
<1>5. CASE ~(n >= MaxVersions)
  <2>1. PICK w : w = Append(kept, record)
    OBVIOUS
  <2>2. Registry!Kept(kept, record) = w
    BY <1>3, <1>5, <2>1 DEF Registry!Kept
  <2>3. /\ w \in Seq(R) /\ Len(w) = n + 1 /\ w[n + 1] = record
        /\ \A k \in 1 .. n : w[k] = kept[k]
    <3>1. n = Len(kept)
      BY <1>3
    <3> QED
      BY ONLY <2>1, <3>1, kept \in Seq(R), record \in R, n \in Nat \ {0}
  <2>4. v < MaxVersions /\ n = v
    BY <1>1, <1>3, <1>5
  <2>5. Len(w) = IF record.version < MaxVersions THEN record.version ELSE MaxVersions
    BY <1>1, <1>2, <2>3, <2>4
  <2>6. ASSUME NEW k \in 1 .. Len(w) PROVE w[k].version = record.version - (Len(w) - k)
    <3>1. k \in 1 .. n + 1
      BY <2>3, <2>6
    <3>2. CASE k = n + 1
      <4>1. w[k].version = v + 1 /\ Len(w) = k
        BY <1>2, <2>3, <3>2
      <4>2. v + 1 = v + 1 - (k - k)
        BY ONLY k = n + 1, n \in Nat \ {0}, v \in Nat \ {0}, <3>2
      <4> QED
        BY ONLY <1>2, <4>1, <4>2
    <3>3. CASE k \in 1 .. n
      <4>1. w[k].version = v - (n - k)
        BY <1>3, <2>3, <3>3
      <4>2. v - (n - k) = v + 1 - (n + 1 - k)
        BY ONLY n \in Nat \ {0}, v \in Nat \ {0}, <3>3
      <4> QED
        BY ONLY <1>2, <2>3, <4>1, <4>2
    <3> QED
      BY ONLY n \in Nat \ {0}, <3>1, <3>2, <3>3
  <2>7. History(w, record)
    BY <2>3, <2>5, <2>6 DEF History
  <2> QED
    BY <2>2, <2>3, <2>7
<1> QED
  BY <1>1, <1>3, <1>4, <1>5
-----------------------------------------------------------------------------
\* Each variable that the others are compared with holds values of its type.
RegistryTyped ==
    /\ metadata \in [Asset -> Registry!AssetMetadata \cup {Registry!NoAsset}]
    /\ versions \in [Asset -> Seq(Registry!AssetMetadata)]
    /\ asset_list \in Seq(Asset)
    /\ category_index \in [Category -> Seq(Asset)]
    /\ status_index \in [Registry!Status -> Seq(Asset)]
    /\ links \in [Kind -> [Asset -> Seq(Link)]]
    /\ \A k \in Kind, a \in Asset : Len(links[k][a]) <= MaxLinks[k]
    /\ frozen \subseteq Asset

\* The list of all assets, the lists by category and those by status: the parts of
\* IndexesTrue.
ListTrue ==
    /\ Registry!ToSet(asset_list) = {a \in Asset : Registry!Registered(a)}
    /\ Registry!IsInjective(asset_list)
CategoriesTrue ==
    \A c \in Category :
        /\ Registry!IsInjective(category_index[c])
        /\ Registry!ToSet(category_index[c]) =
              {a \in Asset : Registry!Registered(a) /\ metadata[a].category = c}
StatusesTrue ==
    \A s \in Registry!Status :
        /\ Registry!IsInjective(status_index[s])
        /\ Registry!ToSet(status_index[s]) =
              {a \in Asset : Registry!Registered(a) /\ metadata[a].status = s}

\* The versions kept of each registered asset.
VersionsTrue == \A a \in Asset : Registry!Registered(a) => History(versions[a], metadata[a])

\* The inductive invariant of the registry.
RegistryInv == RegistryTyped /\ ListTrue /\ CategoriesTrue /\ StatusesTrue /\ VersionsTrue

\* It is what the runs check.
LEMMA RegistryChecked ==
    ASSUME RegistryInv
    PROVE  Registry!TypeOK /\ Registry!IndexesTrue /\ Registry!HistoryTrue
<1>1. Registry!TypeOK
  <2>1. ASSUME NEW a \in Asset PROVE Registry!ToSet(versions[a]) \subseteq Registry!AssetMetadata
    <3>1. versions[a] \in Seq(Registry!AssetMetadata)
      BY DEF RegistryInv, RegistryTyped
    <3> QED
      BY <3>1 DEF Registry!ToSet
  <2> QED
    BY <2>1 DEF RegistryInv, RegistryTyped, Registry!TypeOK
<1>2. Registry!IndexesTrue
  BY DEF RegistryInv, ListTrue, CategoriesTrue, StatusesTrue, Registry!IndexesTrue
<1>3. Registry!HistoryTrue
  BY DEF RegistryInv, VersionsTrue, History, Registry!HistoryTrue
<1> QED
  BY <1>1, <1>2, <1>3

\* It holds at first.
LEMMA InitRegistry ==
    ASSUME Registry!RegistryConstants, Registry!Init
    PROVE  RegistryInv
<1>1. \A a \in Asset : ~Registry!Registered(a)
  BY DEF Registry!Init, Registry!Registered
<1>2. Registry!ToSet(<<>>) = {} /\ Registry!IsInjective(<<>>)
  BY DEF Registry!ToSet, Registry!IsInjective
<1>3. RegistryTyped
  <2>1. \A k \in Kind, a \in Asset : Len(links[k][a]) <= MaxLinks[k]
    BY DEF Registry!Init, Registry!RegistryConstants
  <2> QED
    BY <2>1 DEF Registry!Init, RegistryTyped
<1>4. ListTrue
  BY <1>1, <1>2 DEF Registry!Init, ListTrue
<1>5. CategoriesTrue
  BY <1>1, <1>2 DEF Registry!Init, CategoriesTrue
<1>6. StatusesTrue
  BY <1>1, <1>2 DEF Registry!Init, StatusesTrue
<1>7. VersionsTrue
  BY <1>1 DEF VersionsTrue
<1> QED
  BY <1>3, <1>4, <1>5, <1>6, <1>7 DEF RegistryInv

\* A registered asset has a record with a version.
LEMMA RegisteredRecord ==
    ASSUME RegistryTyped, NEW a \in Asset, Registry!Registered(a)
    PROVE  /\ metadata[a] \in Registry!AssetMetadata
           /\ metadata[a].version \in Nat \ {0}
<1>1. metadata[a] \in Registry!AssetMetadata
  BY DEF RegistryTyped, Registry!Registered
<1> QED
  BY <1>1 DEF Registry!AssetMetadata

\* A record is not the absence of one.
LEMMA RecordsAreSome ==
    ASSUME NEW r \in Registry!AssetMetadata
    PROVE  r # Registry!NoAsset
<1>1. r.version \in 1 .. LastVersion
  BY DEF Registry!AssetMetadata
<1>2. Registry!NoAsset.version = 0
  BY DEF Registry!NoAsset
<1> QED
  BY <1>1, <1>2

\* What a call that saves the next version of a record does to the record and its versions.
SavedAs(a, record) ==
    /\ a \in Asset /\ Registry!Registered(a)
    /\ record \in Registry!AssetMetadata
    /\ record.version = metadata[a].version + 1
    /\ metadata' = [metadata EXCEPT ![a] = record]
    /\ versions' = [versions EXCEPT ![a] = Registry!Kept(versions[a], record)]

\* The versions stay true, and the same assets are registered.
LEMMA SavedKeeps ==
    ASSUME Registry!RegistryConstants, RegistryInv, NEW a, NEW record, SavedAs(a, record)
    PROVE  /\ metadata' \in [Asset -> Registry!AssetMetadata \cup {Registry!NoAsset}]
           /\ versions' \in [Asset -> Seq(Registry!AssetMetadata)]
           /\ VersionsTrue'
           /\ metadata'[a] = record
           /\ \A b \in Asset : /\ Registry!Registered(b)' <=> Registry!Registered(b)
                               /\ b # a => metadata'[b] = metadata[b]
<1>1. /\ a \in Asset /\ Registry!Registered(a) /\ record \in Registry!AssetMetadata
      /\ record.version = metadata[a].version + 1
      /\ metadata' = [metadata EXCEPT ![a] = record]
      /\ versions' = [versions EXCEPT ![a] = Registry!Kept(versions[a], record)]
  BY DEF SavedAs
<1>2. /\ metadata \in [Asset -> Registry!AssetMetadata \cup {Registry!NoAsset}]
      /\ versions \in [Asset -> Seq(Registry!AssetMetadata)]
      /\ RegistryTyped
  BY DEF RegistryInv, RegistryTyped
<1>3. PICK old : old = metadata[a]
  OBVIOUS
<1>4. PICK kept : kept = versions[a]
  OBVIOUS
<1>5. /\ kept \in Seq(Registry!AssetMetadata) /\ History(kept, old)
      /\ old.version \in Nat \ {0} /\ record.version = old.version + 1
  BY <1>1, <1>2, <1>3, <1>4, RegisteredRecord DEF RegistryInv, VersionsTrue
<1>6. PICK next : next = Registry!Kept(kept, record)
  OBVIOUS
<1>7. next \in Seq(Registry!AssetMetadata) /\ History(next, record)
  BY <1>1, <1>5, <1>6, KeptNext
<1>8. versions' = [versions EXCEPT ![a] = next]
  BY <1>1, <1>4, <1>6
<1>9. /\ metadata' \in [Asset -> Registry!AssetMetadata \cup {Registry!NoAsset}]
      /\ versions' \in [Asset -> Seq(Registry!AssetMetadata)]
      /\ metadata'[a] = record /\ versions'[a] = next
      /\ \A b \in Asset : b # a => metadata'[b] = metadata[b] /\ versions'[b] = versions[b]
  BY <1>1, <1>2, <1>7, <1>8
<1>10. \A b \in Asset : Registry!Registered(b)' <=> Registry!Registered(b)
  BY <1>1, <1>9, RecordsAreSome DEF Registry!Registered
<1>11. VersionsTrue'
  <2>1. \A b \in Asset : Registry!Registered(b) => History(versions[b], metadata[b])
    BY DEF RegistryInv, VersionsTrue
  <2>2. ASSUME NEW b \in Asset, Registry!Registered(b)
        PROVE  History(versions'[b], metadata'[b])
    BY <1>7, <1>9, <2>1, <2>2
  <2>3. \A b \in Asset : Registry!Registered(b)' => History(versions'[b], metadata'[b])
    BY <1>10, <2>2
  <2>4. \A b \in Asset : History(versions[b], metadata[b])' <=> History(versions'[b], metadata'[b])
    BY DEF History
  <2> QED
    BY <2>3, <2>4 DEF VersionsTrue
<1> QED
  BY <1>9, <1>10, <1>11

\* The lists of an index that no step changes stay true.
LEMMA ListKeeps ==
    ASSUME RegistryInv, NEW a, NEW record, SavedAs(a, record), UNCHANGED asset_list,
           Registry!RegistryConstants
    PROVE  ListTrue'
  BY SavedKeeps DEF ListTrue, RegistryInv

\* A change that keeps the category of the record keeps the lists by category true.
LEMMA CategoriesKeep ==
    ASSUME RegistryInv, NEW a, NEW record, SavedAs(a, record), UNCHANGED category_index,
           record.category = metadata[a].category, Registry!RegistryConstants
    PROVE  CategoriesTrue'
<1>1. a \in Asset
  BY DEF SavedAs
<1>2. \A b \in Asset : /\ Registry!Registered(b)' <=> Registry!Registered(b)
                       /\ metadata'[b].category = metadata[b].category
  BY <1>1, SavedKeeps
<1> QED
  BY <1>2 DEF CategoriesTrue, RegistryInv

\* A change that keeps the status of the record keeps the lists by status true.
LEMMA StatusesKeep ==
    ASSUME RegistryInv, NEW a, NEW record, SavedAs(a, record), UNCHANGED status_index,
           record.status = metadata[a].status, Registry!RegistryConstants
    PROVE  StatusesTrue'
<1>1. a \in Asset
  BY DEF SavedAs
<1>2. \A b \in Asset : /\ Registry!Registered(b)' <=> Registry!Registered(b)
                       /\ metadata'[b].status = metadata[b].status
  BY <1>1, SavedKeeps
<1> QED
  BY <1>2 DEF StatusesTrue, RegistryInv

\* An asset moved to the list of its new category, as it takes it.
LEMMA CategoriesMoved ==
    ASSUME RegistryInv, NEW a, NEW record, SavedAs(a, record), Registry!RegistryConstants,
           category_index' = Registry!Moved(category_index, a, metadata[a].category, record.category)
    PROVE  category_index' \in [Category -> Seq(Asset)] /\ CategoriesTrue'
<1>1. /\ a \in Asset /\ RegistryTyped /\ Registry!Registered(a)
      /\ category_index \in [Category -> Seq(Asset)]
      /\ metadata[a] \in Registry!AssetMetadata /\ record \in Registry!AssetMetadata
  BY RegisteredRecord DEF SavedAs, RegistryInv, RegistryTyped
<1> DEFINE known == {b \in Asset : Registry!Registered(b)}
           old == [b \in Asset |-> metadata[b].category]
           later == [b \in Asset |-> metadata'[b].category]
<1>2. /\ metadata'[a] = record
      /\ \A b \in Asset : /\ Registry!Registered(b)' <=> Registry!Registered(b)
                          /\ b # a => metadata'[b] = metadata[b]
  BY SavedKeeps
<1>3. /\ a \in known /\ old[a] \in Category /\ later[a] \in Category
      /\ \A b \in Asset : b # a => later[b] = old[b]
      /\ old[a] = metadata[a].category /\ later[a] = record.category
  BY <1>1, <1>2 DEF Registry!AssetMetadata
<1>4. IndexOf(Category, Asset, category_index, known, old)
  <2>1. ASSUME NEW k \in Category
        PROVE  Registry!ToSet(category_index[k]) = {b \in Asset : b \in known /\ old[b] = k}
    BY DEF RegistryInv, CategoriesTrue
  <2> QED
    BY <1>1, <2>1 DEF RegistryInv, CategoriesTrue, IndexOf
<1>5. \A b \in Asset : /\ b \in known <=> Registry!Registered(b)'
                       /\ later[b] = metadata'[b].category
  BY <1>2
<1> HIDE DEF known, old, later
<1>6. PICK new : new = category_index'
  OBVIOUS
<1>7. IndexOf(Category, Asset, new, known, later)
  BY <1>1, <1>3, <1>4, <1>6, IndexMoved
<1>8. \A k \in Category :
          /\ Registry!ToSet(new[k]) = Registry!ToSet(category_index[k])'
          /\ Registry!IsInjective(new[k]) <=> Registry!IsInjective(category_index[k])'
  BY <1>6 DEF Registry!ToSet, Registry!IsInjective
<1>9. \A k \in Category : {b \in Asset : b \in known /\ later[b] = k} =
                      {b \in Asset : Registry!Registered(b)' /\ metadata'[b].category = k}
  BY <1>5
<1> QED
  BY <1>6, <1>7, <1>8, <1>9 DEF IndexOf, CategoriesTrue

\* An asset moved to the list of its new status, as it takes it.
LEMMA StatusesMoved ==
    ASSUME RegistryInv, NEW a, NEW record, SavedAs(a, record), Registry!RegistryConstants,
           status_index' = Registry!Moved(status_index, a, metadata[a].status, record.status)
    PROVE  status_index' \in [Registry!Status -> Seq(Asset)] /\ StatusesTrue'
<1>1. /\ a \in Asset /\ RegistryTyped /\ Registry!Registered(a)
      /\ status_index \in [Registry!Status -> Seq(Asset)]
      /\ metadata[a] \in Registry!AssetMetadata /\ record \in Registry!AssetMetadata
  BY RegisteredRecord DEF SavedAs, RegistryInv, RegistryTyped
<1> DEFINE known == {b \in Asset : Registry!Registered(b)}
           old == [b \in Asset |-> metadata[b].status]
           later == [b \in Asset |-> metadata'[b].status]
<1>2. /\ metadata'[a] = record
      /\ \A b \in Asset : /\ Registry!Registered(b)' <=> Registry!Registered(b)
                          /\ b # a => metadata'[b] = metadata[b]
  BY SavedKeeps
<1>3. /\ a \in known /\ old[a] \in Registry!Status /\ later[a] \in Registry!Status
      /\ \A b \in Asset : b # a => later[b] = old[b]
      /\ old[a] = metadata[a].status /\ later[a] = record.status
  BY <1>1, <1>2 DEF Registry!AssetMetadata
<1>4. IndexOf(Registry!Status, Asset, status_index, known, old)
  <2>1. ASSUME NEW k \in Registry!Status
        PROVE  Registry!ToSet(status_index[k]) = {b \in Asset : b \in known /\ old[b] = k}
    BY DEF RegistryInv, StatusesTrue
  <2> QED
    BY <1>1, <2>1 DEF RegistryInv, StatusesTrue, IndexOf
<1>5. \A b \in Asset : /\ b \in known <=> Registry!Registered(b)'
                       /\ later[b] = metadata'[b].status
  BY <1>2
<1> HIDE DEF known, old, later
<1>6. PICK new : new = status_index'
  OBVIOUS
<1>7. IndexOf(Registry!Status, Asset, new, known, later)
  BY <1>1, <1>3, <1>4, <1>6, IndexMoved
<1>8. \A k \in Registry!Status :
          /\ Registry!ToSet(new[k]) = Registry!ToSet(status_index[k])'
          /\ Registry!IsInjective(new[k]) <=> Registry!IsInjective(status_index[k])'
  BY <1>6 DEF Registry!ToSet, Registry!IsInjective
<1>9. \A k \in Registry!Status : {b \in Asset : b \in known /\ later[b] = k} =
                      {b \in Asset : Registry!Registered(b)' /\ metadata'[b].status = k}
  BY <1>5
<1> QED
  BY <1>6, <1>7, <1>8, <1>9 DEF IndexOf, StatusesTrue

\* The calls that save a record and change neither its category nor its status.
LEMMA EditKeeps ==
    ASSUME Registry!RegistryConstants, RegistryInv, NEW a, NEW record, SavedAs(a, record),
           record.category = metadata[a].category, record.status = metadata[a].status,
           UNCHANGED <<asset_list, category_index, status_index, links, frozen>>
    PROVE  RegistryInv'
<1>1. ListTrue' /\ CategoriesTrue' /\ StatusesTrue' /\ VersionsTrue'
  BY SavedKeeps, ListKeeps, CategoriesKeep, StatusesKeep
<1>2. RegistryTyped'
  <2>1. /\ metadata' \in [Asset -> Registry!AssetMetadata \cup {Registry!NoAsset}]
        /\ versions' \in [Asset -> Seq(Registry!AssetMetadata)]
    BY SavedKeeps
  <2> QED
    BY <2>1 DEF RegistryInv, RegistryTyped
<1> QED
  BY <1>1, <1>2 DEF RegistryInv

\* The records the calls save: the next version, with one field changed.
LEMMA NextRecords ==
    ASSUME Registry!RegistryConstants, RegistryInv, NEW a \in Asset, Registry!Registered(a),
           metadata[a].version + 1 <= LastVersion
    PROVE  /\ Registry!Counted(a).version = metadata[a].version + 1
           /\ \A text \in Text : LET r == [Registry!Counted(a) EXCEPT !.text = text] IN
                 /\ r \in Registry!AssetMetadata /\ r.version = metadata[a].version + 1
                 /\ r.category = metadata[a].category /\ r.status = metadata[a].status
           /\ \A x \in Category : LET r == [Registry!Counted(a) EXCEPT !.category = x] IN
                 /\ r \in Registry!AssetMetadata /\ r.version = metadata[a].version + 1
                 /\ r.category = x /\ r.status = metadata[a].status
           /\ \A x \in Rating : LET r == [Registry!Counted(a) EXCEPT !.rating = x] IN
                 /\ r \in Registry!AssetMetadata /\ r.version = metadata[a].version + 1
                 /\ r.category = metadata[a].category /\ r.status = metadata[a].status
           /\ \A x \in Compliance : LET r == [Registry!Counted(a) EXCEPT !.compliance = x] IN
                 /\ r \in Registry!AssetMetadata /\ r.version = metadata[a].version + 1
                 /\ r.category = metadata[a].category /\ r.status = metadata[a].status
           /\ \A x \in Registry!Status : LET r == [Registry!Counted(a) EXCEPT !.status = x] IN
                 /\ r \in Registry!AssetMetadata /\ r.version = metadata[a].version + 1
                 /\ r.category = metadata[a].category /\ r.status = x
<1>1. /\ metadata[a] \in Registry!AssetMetadata /\ metadata[a].version \in Nat \ {0}
  BY RegisteredRecord DEF RegistryInv
<1>2. PICK old : old = metadata[a]
  OBVIOUS
<1>3. Registry!Counted(a) = [old EXCEPT !.version = old.version + 1]
  BY <1>2 DEF Registry!Counted
<1>4. old.version + 1 \in 1 .. LastVersion
  BY <1>1, <1>2 DEF Registry!RegistryConstants
<1>5. old \in Registry!AssetMetadata
  BY <1>1, <1>2
<1>6. PICK next : next = Registry!Counted(a)
  OBVIOUS
<1>7. /\ next \in Registry!AssetMetadata /\ next.version = old.version + 1
      /\ next.category = old.category /\ next.status = old.status
  BY ONLY <1>3, <1>4, <1>5, <1>6 DEF Registry!AssetMetadata
<1> QED
  BY ONLY <1>2, <1>6, <1>7 DEF Registry!AssetMetadata

\* A registration lists an asset that no list held.
LEMMA RegisterKeeps ==
    ASSUME Registry!RegistryConstants, RegistryInv, NEW a \in Asset, NEW text \in Text,
           NEW category \in Category, Registry!RegisterAsset(a, text, category)
    PROVE  RegistryInv'
<1>1. PICK record : record = [version |-> 1, text |-> text, category |-> category,
                              status |-> "PendingReview", rating |-> "Default",
                              compliance |-> Registry!Pending]
  OBVIOUS
<1>2. /\ ~Registry!Registered(a)
      /\ metadata' = [metadata EXCEPT ![a] = record]
      /\ versions' = [versions EXCEPT ![a] = <<record>>]
      /\ links' = [k \in Kind |-> [links[k] EXCEPT ![a] = <<>>]]
      /\ asset_list' = Append(asset_list, a)
      /\ category_index' = Registry!AddToIndex(category_index, category, a)
      /\ status_index' = Registry!AddToIndex(status_index, "PendingReview", a)
      /\ UNCHANGED frozen
  BY <1>1 DEF Registry!RegisterAsset
<1>3. /\ metadata \in [Asset -> Registry!AssetMetadata \cup {Registry!NoAsset}]
      /\ versions \in [Asset -> Seq(Registry!AssetMetadata)]
      /\ asset_list \in Seq(Asset)
      /\ category_index \in [Category -> Seq(Asset)]
      /\ status_index \in [Registry!Status -> Seq(Asset)]
      /\ links \in [Kind -> [Asset -> Seq(Link)]]
      /\ \A k \in Kind, b \in Asset : Len(links[k][b]) <= MaxLinks[k]
      /\ frozen \subseteq Asset
  BY DEF RegistryInv, RegistryTyped
<1>4. record \in Registry!AssetMetadata /\ record # Registry!NoAsset
  <2>1. record \in Registry!AssetMetadata
    BY <1>1 DEF Registry!AssetMetadata, Registry!RegistryConstants, Registry!Status
  <2> QED
    BY <2>1, RecordsAreSome
<1>5. /\ metadata'[a] = record
      /\ Registry!Registered(a)'
      /\ \A b \in Asset : b # a => /\ metadata'[b] = metadata[b]
                                   /\ Registry!Registered(b)' <=> Registry!Registered(b)
  BY <1>2, <1>3, <1>4 DEF Registry!Registered
<1>6. /\ metadata' \in [Asset -> Registry!AssetMetadata \cup {Registry!NoAsset}]
      /\ versions' \in [Asset -> Seq(Registry!AssetMetadata)]
  BY <1>2, <1>3, <1>4
<1>7. /\ links' \in [Kind -> [Asset -> Seq(Link)]]
      /\ \A k \in Kind, b \in Asset : Len(links'[k][b]) <= MaxLinks[k]
  <2>1. ASSUME NEW k \in Kind
        PROVE  /\ links'[k] \in [Asset -> Seq(Link)]
               /\ \A b \in Asset : Len(links'[k][b]) <= MaxLinks[k]
    <3>1. links'[k] = [links[k] EXCEPT ![a] = <<>>] /\ links[k] \in [Asset -> Seq(Link)]
      BY <1>2, <1>3
    <3>2. MaxLinks[k] \in Nat
      BY DEF Registry!RegistryConstants
    <3> QED
      BY <1>3, <3>1, <3>2
  <2>2. DOMAIN links' = Kind /\ links' = [k \in Kind |-> links'[k]]
    BY <1>2
  <2> QED
    BY <2>1, <2>2
<1>8. asset_list' \in Seq(Asset) /\ ListTrue'
  <2>1. a \notin Registry!ToSet(asset_list)
    BY <1>2 DEF RegistryInv, ListTrue
  <2>2. PICK new : new = Append(asset_list, a)
    OBVIOUS
  <2>3. /\ new \in Seq(Asset) /\ Registry!ToSet(new) = Registry!ToSet(asset_list) \cup {a}
        /\ Registry!IsInjective(asset_list) => Registry!IsInjective(new)
    BY <1>3, <2>1, <2>2, ListedLast
  <2>4. /\ Registry!ToSet(asset_list) = {b \in Asset : Registry!Registered(b)}
        /\ Registry!IsInjective(asset_list)
    BY DEF RegistryInv, ListTrue
  <2>5. Registry!ToSet(new) = {b \in Asset : Registry!Registered(b)'}
    BY <1>5, <2>3, <2>4
  <2>6. /\ Registry!ToSet(new) = Registry!ToSet(asset_list)'
        /\ Registry!IsInjective(new) <=> Registry!IsInjective(asset_list)'
    BY <1>2, <2>2 DEF Registry!ToSet, Registry!IsInjective
  <2> QED
    BY <1>2, <2>2, <2>3, <2>4, <2>5, <2>6 DEF ListTrue
<1>9. category_index' \in [Category -> Seq(Asset)] /\ CategoriesTrue'
  <2>1. PICK new : new = category_index'
    OBVIOUS
  <2>2. Relisted(Category, Asset, category_index, category, new,
                 Registry!ToSet(category_index[category]) \cup {a})
    BY <1>2, <1>3, <2>1, IndexAdded
  <2>3. /\ new \in [Category -> Seq(Asset)]
        /\ \A c \in Category :
              /\ c # category => new[c] = category_index[c]
              /\ Registry!IsInjective(category_index[c]) => Registry!IsInjective(new[c])
        /\ Registry!ToSet(new[category]) = Registry!ToSet(category_index[category]) \cup {a}
    BY <2>2 DEF Relisted
  <2>4. \A c \in Category :
            /\ Registry!IsInjective(category_index[c])
            /\ Registry!ToSet(category_index[c]) =
                  {b \in Asset : Registry!Registered(b) /\ metadata[b].category = c}
    BY DEF RegistryInv, CategoriesTrue
  <2>5. ASSUME NEW c \in Category
        PROVE  /\ Registry!IsInjective(new[c])
               /\ Registry!ToSet(new[c]) =
                     {b \in Asset : Registry!Registered(b)' /\ metadata'[b].category = c}
    <3>1. record.category = category
      BY <1>1
    <3>2. PICK was : /\ was = Registry!ToSet(category_index[c])
                     /\ was = {b \in Asset : Registry!Registered(b) /\ metadata[b].category = c}
      BY <2>4
    <3>3. Registry!ToSet(new[c]) = IF c = category THEN was \cup {a} ELSE was
      BY <2>3, <3>2
    <3>4. (IF c = category THEN was \cup {a} ELSE was) =
             {b \in Asset : Registry!Registered(b)' /\ metadata'[b].category = c}
      BY <1>2, <1>5, <3>1, <3>2
    <3> QED
      BY <2>3, <2>4, <3>3, <3>4
  <2>6. \A c \in Category :
            /\ Registry!ToSet(new[c]) = Registry!ToSet(category_index[c])'
            /\ Registry!IsInjective(new[c]) <=> Registry!IsInjective(category_index[c])'
    BY <2>1 DEF Registry!ToSet, Registry!IsInjective
  <2> QED
    BY <2>1, <2>3, <2>5, <2>6 DEF CategoriesTrue
<1>10. status_index' \in [Registry!Status -> Seq(Asset)] /\ StatusesTrue'
  <2>1. PICK new : new = status_index'
    OBVIOUS
  <2>0. PICK pending \in Registry!Status : pending = "PendingReview"
    BY DEF Registry!Status
  <2>2. Relisted(Registry!Status, Asset, status_index, pending, new,
                 Registry!ToSet(status_index[pending]) \cup {a})
    BY <1>2, <1>3, <2>0, <2>1, IndexAdded
  <2>3. /\ new \in [Registry!Status -> Seq(Asset)]
        /\ \A s \in Registry!Status :
              /\ s # pending => new[s] = status_index[s]
              /\ Registry!IsInjective(status_index[s]) => Registry!IsInjective(new[s])
        /\ Registry!ToSet(new[pending]) = Registry!ToSet(status_index[pending]) \cup {a}
    BY <2>2 DEF Relisted
  <2>4. \A s \in Registry!Status :
            /\ Registry!IsInjective(status_index[s])
            /\ Registry!ToSet(status_index[s]) =
                  {b \in Asset : Registry!Registered(b) /\ metadata[b].status = s}
    BY DEF RegistryInv, StatusesTrue
  <2>5. ASSUME NEW s \in Registry!Status
        PROVE  /\ Registry!IsInjective(new[s])
               /\ Registry!ToSet(new[s]) =
                     {b \in Asset : Registry!Registered(b)' /\ metadata'[b].status = s}
    <3>1. record.status = pending
      BY <1>1, <2>0
    <3>2. PICK was : /\ was = Registry!ToSet(status_index[s])
                     /\ was = {b \in Asset : Registry!Registered(b) /\ metadata[b].status = s}
      BY <2>4
    <3>3. Registry!ToSet(new[s]) = IF s = pending THEN was \cup {a} ELSE was
      BY <2>3, <3>2
    <3>4. (IF s = pending THEN was \cup {a} ELSE was) =
             {b \in Asset : Registry!Registered(b)' /\ metadata'[b].status = s}
      BY <1>2, <1>5, <3>1, <3>2
    <3> QED
      BY <2>3, <2>4, <3>3, <3>4
  <2>6. \A s \in Registry!Status :
            /\ Registry!ToSet(new[s]) = Registry!ToSet(status_index[s])'
            /\ Registry!IsInjective(new[s]) <=> Registry!IsInjective(status_index[s])'
    BY <2>1 DEF Registry!ToSet, Registry!IsInjective
  <2> QED
    BY <2>1, <2>3, <2>5, <2>6 DEF StatusesTrue
<1>11. VersionsTrue'
  <2>1. PICK first : first = <<record>>
    OBVIOUS
  <2>2. History(first, record)
    <3>1. Len(first) = 1 /\ first[1] = record /\ record.version = 1
      BY <1>1, <2>1
    <3>2. MaxVersions \in Nat \ {0}
      BY DEF Registry!RegistryConstants
    <3> QED
      BY <3>1, <3>2 DEF History
  <2>3. versions'[a] = first /\ \A b \in Asset : b # a => versions'[b] = versions[b]
    BY <1>2, <1>3, <2>1
  <2>4. ASSUME NEW b \in Asset, Registry!Registered(b)'
        PROVE  History(versions'[b], metadata'[b])
    BY <1>5, <2>2, <2>3, <2>4 DEF RegistryInv, VersionsTrue
  <2>5. \A b \in Asset : History(versions[b], metadata[b])' <=> History(versions'[b], metadata'[b])
    BY DEF History
  <2> QED
    BY <2>4, <2>5 DEF VersionsTrue
<1>12. RegistryTyped'
  BY <1>2, <1>3, <1>6, <1>7, <1>8, <1>9, <1>10 DEF RegistryTyped
<1> QED
  BY <1>8, <1>9, <1>10, <1>11, <1>12 DEF RegistryInv

\* A change of category moves an asset in its index.
LEMMA CategoryKeeps ==
    ASSUME Registry!RegistryConstants, RegistryInv, NEW a \in Asset, NEW x \in Category,
           Registry!UpdateCategory(a, x)
    PROVE  RegistryInv'
<1>1. PICK record : record = [Registry!Counted(a) EXCEPT !.category = x]
  OBVIOUS
<1>2. /\ Registry!Registered(a) /\ record.version <= LastVersion
      /\ category_index' = Registry!Moved(category_index, a, metadata[a].category, x)
      /\ metadata' = [metadata EXCEPT ![a] = record]
      /\ versions' = [versions EXCEPT ![a] = Registry!Kept(versions[a], record)]
      /\ UNCHANGED <<asset_list, status_index, links, frozen>>
  BY <1>1 DEF Registry!UpdateCategory, Registry!SaveWithVersion
<1>3. metadata[a].version + 1 <= LastVersion
  <2>1. Registry!Counted(a).version = record.version
    BY <1>1 DEF Registry!Counted
  <2>2. Registry!Counted(a).version = metadata[a].version + 1
    BY <1>2, RegisteredRecord DEF Registry!Counted, RegistryInv, Registry!AssetMetadata
  <2> QED
    BY <1>2, <2>1, <2>2
<1>4. /\ SavedAs(a, record) /\ record.category = x /\ record.status = metadata[a].status
  BY <1>1, <1>2, <1>3, NextRecords DEF SavedAs
<1>5. ListTrue' /\ StatusesTrue' /\ VersionsTrue'
  BY <1>2, <1>4, SavedKeeps, ListKeeps, StatusesKeep
<1>6. category_index' \in [Category -> Seq(Asset)] /\ CategoriesTrue'
  BY <1>2, <1>4, CategoriesMoved
<1>7. /\ metadata' \in [Asset -> Registry!AssetMetadata \cup {Registry!NoAsset}]
      /\ versions' \in [Asset -> Seq(Registry!AssetMetadata)]
  BY <1>4, SavedKeeps
<1> QED
  BY <1>2, <1>5, <1>6, <1>7 DEF RegistryInv, RegistryTyped

\* A change of status moves an asset in its index.
LEMMA StatusKeeps ==
    ASSUME Registry!RegistryConstants, RegistryInv, NEW a \in Asset, NEW x \in Registry!Status,
           Registry!Registered(a), Registry!Becomes(a, x)
    PROVE  RegistryInv'
<1>1. PICK record : record = [Registry!Counted(a) EXCEPT !.status = x]
  OBVIOUS
<1>2. /\ record.version <= LastVersion
      /\ status_index' = Registry!Moved(status_index, a, metadata[a].status, x)
      /\ metadata' = [metadata EXCEPT ![a] = record]
      /\ versions' = [versions EXCEPT ![a] = Registry!Kept(versions[a], record)]
      /\ UNCHANGED <<asset_list, category_index, links, frozen>>
  BY <1>1 DEF Registry!Becomes, Registry!SaveWithVersion
<1>3. metadata[a].version + 1 <= LastVersion
  <2>1. Registry!Counted(a).version = record.version
    BY <1>1 DEF Registry!Counted
  <2>2. Registry!Counted(a).version = metadata[a].version + 1
    BY <1>2, RegisteredRecord DEF Registry!Counted, RegistryInv, Registry!AssetMetadata
  <2> QED
    BY <1>2, <2>1, <2>2
<1>4. /\ SavedAs(a, record) /\ record.status = x /\ record.category = metadata[a].category
  BY <1>1, <1>2, <1>3, NextRecords DEF SavedAs
<1>5. ListTrue' /\ CategoriesTrue' /\ VersionsTrue'
  BY <1>2, <1>4, SavedKeeps, ListKeeps, CategoriesKeep
<1>6. status_index' \in [Registry!Status -> Seq(Asset)] /\ StatusesTrue'
  BY <1>2, <1>4, StatusesMoved
<1>7. /\ metadata' \in [Asset -> Registry!AssetMetadata \cup {Registry!NoAsset}]
      /\ versions' \in [Asset -> Seq(Registry!AssetMetadata)]
  BY <1>4, SavedKeeps
<1> QED
  BY <1>2, <1>5, <1>6, <1>7 DEF RegistryInv, RegistryTyped

\* The calls that save a record with another text, rating or compliance status.
LEMMA SaveKeeps ==
    ASSUME Registry!RegistryConstants, RegistryInv, NEW a \in Asset, Registry!Registered(a),
           NEW record,
           \/ \E x \in Text : record = [Registry!Counted(a) EXCEPT !.text = x]
           \/ \E x \in Rating : record = [Registry!Counted(a) EXCEPT !.rating = x]
           \/ \E x \in Compliance : record = [Registry!Counted(a) EXCEPT !.compliance = x],
           Registry!SaveWithVersion(a, record),
           UNCHANGED <<asset_list, category_index, status_index, links, frozen>>
    PROVE  RegistryInv' /\ metadata' = [metadata EXCEPT ![a] = record]
           /\ record.status = metadata[a].status
<1>1. /\ record.version <= LastVersion
      /\ metadata' = [metadata EXCEPT ![a] = record]
      /\ versions' = [versions EXCEPT ![a] = Registry!Kept(versions[a], record)]
  BY DEF Registry!SaveWithVersion
<1>2. metadata[a].version + 1 <= LastVersion
  <2>1. Registry!Counted(a).version = record.version
    <3>1. PICK old \in Registry!AssetMetadata : old = metadata[a] /\ old.version \in Nat
      BY RegisteredRecord DEF RegistryInv
    <3>2. PICK next : next = [old EXCEPT !.version = old.version + 1]
      OBVIOUS
    <3>3. Registry!Counted(a) = next
      BY <3>1, <3>2 DEF Registry!Counted
    <3>4. \/ \E x : record = [next EXCEPT !.text = x]
          \/ \E x : record = [next EXCEPT !.rating = x]
          \/ \E x : record = [next EXCEPT !.compliance = x]
      BY <3>3
    <3>5. record.version = next.version
      BY ONLY <3>2, <3>4, old \in Registry!AssetMetadata DEF Registry!AssetMetadata
    <3> QED
      BY <3>3, <3>5
  <2>2. Registry!Counted(a).version = metadata[a].version + 1
    BY RegisteredRecord DEF Registry!Counted, RegistryInv, Registry!AssetMetadata
  <2> QED
    BY <1>1, <2>1, <2>2
<1>3. /\ record \in Registry!AssetMetadata /\ record.version = metadata[a].version + 1
      /\ record.category = metadata[a].category /\ record.status = metadata[a].status
  <2>1. CASE \E x \in Text : record = [Registry!Counted(a) EXCEPT !.text = x]
    BY <1>2, <2>1, NextRecords
  <2>2. CASE \E x \in Rating : record = [Registry!Counted(a) EXCEPT !.rating = x]
    BY <1>2, <2>2, NextRecords
  <2>3. CASE \E x \in Compliance : record = [Registry!Counted(a) EXCEPT !.compliance = x]
    BY <1>2, <2>3, NextRecords
  <2> QED
    BY <2>1, <2>2, <2>3
<1>4. SavedAs(a, record)
  BY <1>1, <1>3 DEF SavedAs
<1> QED
  BY <1>1, <1>3, <1>4, EditKeeps

\* The calls on links, the whitelist and the freezes leave the records alone.
LEMMA AsideKeeps ==
    ASSUME Registry!RegistryConstants, RegistryInv,
           UNCHANGED <<metadata, versions, asset_list, category_index, status_index>>,
           links' \in [Kind -> [Asset -> Seq(Link)]],
           \A k \in Kind, a \in Asset : Len(links'[k][a]) <= MaxLinks[k],
           frozen' \subseteq Asset
    PROVE  RegistryInv'
<1>1. RegistryTyped'
  BY DEF RegistryInv, RegistryTyped
<1>2. ListTrue' /\ CategoriesTrue' /\ StatusesTrue'
  BY DEF RegistryInv, ListTrue, CategoriesTrue, StatusesTrue, Registry!Registered,
     Registry!ToSet, Registry!IsInjective
<1>3. VersionsTrue'
  BY DEF RegistryInv, VersionsTrue, History, Registry!Registered
<1> QED
  BY <1>1, <1>2, <1>3 DEF RegistryInv

\* A name added to a list of links that has room.
LEMMA LinkKeeps ==
    ASSUME Registry!RegistryConstants, RegistryInv, NEW a \in Asset, NEW k \in Kind,
           NEW name \in Link, Registry!AddLink(k, a, name)
    PROVE  RegistryInv' /\ UNCHANGED metadata
<1>1. /\ UNCHANGED <<metadata, versions, asset_list, category_index, status_index, frozen>>
      /\ links' = [links EXCEPT ![k] = [links[k] EXCEPT ![a] = Append(links[k][a], name)]]
      /\ Len(links[k][a]) < MaxLinks[k]
  BY DEF Registry!AddLink
<1>2. /\ links \in [Kind -> [Asset -> Seq(Link)]] /\ frozen \subseteq Asset
      /\ \A j \in Kind, b \in Asset : Len(links[j][b]) <= MaxLinks[j]
      /\ MaxLinks[k] \in Nat
  BY DEF RegistryInv, RegistryTyped, Registry!RegistryConstants
<1>3. PICK old : old = links[k][a] /\ old \in Seq(Link)
  BY <1>2
<1>4. PICK new : new = Append(old, name)
  OBVIOUS
<1>5. new \in Seq(Link) /\ Len(new) = Len(old) + 1 /\ Len(old) \in Nat
  BY <1>3, <1>4
<1>6. Len(new) <= MaxLinks[k]
  BY <1>1, <1>2, <1>3, <1>5
<1>7. PICK row : row = [links[k] EXCEPT ![a] = new]
  OBVIOUS
<1>8. /\ row \in [Asset -> Seq(Link)]
      /\ \A b \in Asset : Len(row[b]) <= MaxLinks[k]
  BY <1>2, <1>5, <1>6, <1>7
<1>9. links' = [links EXCEPT ![k] = row]
  BY <1>1, <1>3, <1>4, <1>7
<1>10. /\ links' \in [Kind -> [Asset -> Seq(Link)]]
       /\ \A j \in Kind, b \in Asset : Len(links'[j][b]) <= MaxLinks[j]
  BY <1>2, <1>8, <1>9
<1> QED
  BY <1>1, <1>2, <1>10, AsideKeeps

\* What the calls do to an asset that is deprecated: nothing that changes its status.
StaysDeprecated ==
    \A b \in Asset : Registry!Registered(b) /\ metadata[b].status = "Deprecated" =>
                        metadata'[b].status = "Deprecated"

\* A step that gives one asset a record keeps the deprecated ones so, when the asset was not
\* deprecated or keeps its status.
LEMMA OneRecordStays ==
    ASSUME RegistryInv, NEW a \in Asset, NEW record,
           metadata' = [metadata EXCEPT ![a] = record],
           \/ ~Registry!Registered(a)
           \/ metadata[a].status # "Deprecated"
           \/ record.status = metadata[a].status
    PROVE  StaysDeprecated
<1>1. \A b \in Asset : metadata'[b] = IF b = a THEN record ELSE metadata[b]
  BY DEF RegistryInv, RegistryTyped
<1> QED
  BY <1>1 DEF StaysDeprecated

\* A change of status is of an asset that is not deprecated.
LEMMA StatusSteps ==
    ASSUME Registry!RegistryConstants, RegistryInv, NEW a \in Asset,
           \/ \E s \in Registry!Status : Registry!UpdateStatus(a, s)
           \/ Registry!DeactivateAsset(a)
           \/ Registry!RestoreAsset(a)
    PROVE  RegistryInv' /\ StaysDeprecated
<1>1. PICK s \in Registry!Status :
          /\ Registry!Registered(a) /\ Registry!Becomes(a, s)
          /\ metadata[a].status # "Deprecated"
  <2>1. CASE \E s \in Registry!Status : Registry!UpdateStatus(a, s)
    <3>1. PICK s \in Registry!Status : Registry!UpdateStatus(a, s)
      BY <2>1
    <3>2. <<metadata[a].status, s>> \in Registry!Transition
      BY <3>1 DEF Registry!UpdateStatus
    <3>3. metadata[a].status # "Deprecated"
      BY <3>2 DEF Registry!Transition
    <3> QED
      BY <3>1, <3>3 DEF Registry!UpdateStatus
  <2>2. CASE Registry!DeactivateAsset(a)
    BY <2>2 DEF Registry!DeactivateAsset, Registry!Status
  <2>3. CASE Registry!RestoreAsset(a)
    BY <2>3 DEF Registry!RestoreAsset, Registry!Status
  <2> QED
    BY <2>1, <2>2, <2>3
<1>2. RegistryInv'
  BY <1>1, StatusKeeps
<1>3. PICK record : metadata' = [metadata EXCEPT ![a] = record]
  BY <1>1 DEF Registry!Becomes, Registry!SaveWithVersion
<1>4. StaysDeprecated
  BY <1>1, <1>3, OneRecordStays
<1> QED
  BY <1>2, <1>4

\* Every step keeps the invariant, and what is deprecated.
LEMMA NextRegistry ==
    ASSUME Registry!RegistryConstants, RegistryInv, [Registry!Next]_(Registry!registryVars)
    PROVE  RegistryInv' /\ StaysDeprecated
<1> DEFINE Aside == RegistryInv' /\ UNCHANGED metadata
<1>a. Aside => RegistryInv' /\ StaysDeprecated
  BY DEF StaysDeprecated
<1>b. /\ links \in [Kind -> [Asset -> Seq(Link)]] /\ frozen \subseteq Asset
      /\ \A j \in Kind, b \in Asset : Len(links[j][b]) <= MaxLinks[j]
  BY DEF RegistryInv, RegistryTyped
<1>1. CASE UNCHANGED Registry!registryVars
  <2>1. UNCHANGED <<metadata, versions, asset_list, category_index, status_index, links, frozen>>
    BY <1>1 DEF Registry!registryVars
  <2> QED
    BY <1>a, <1>b, <2>1, AsideKeeps
<1>2. CASE Registry!Next
  <2> PICK a \in Asset :
        \/ \E text \in Text : \/ \E category \in Category :
                                    Registry!RegisterAsset(a, text, category)
                              \/ Registry!UpdateMetadata(a, text)
        \/ \E category \in Category : Registry!UpdateCategory(a, category)
        \/ \E rating \in Rating : Registry!UpdateRisk(a, rating)
        \/ \E compliance \in Compliance : Registry!UpdateCompliance(a, compliance)
        \/ \E s \in Registry!Status : Registry!UpdateStatus(a, s)
        \/ Registry!DeactivateAsset(a) \/ Registry!RestoreAsset(a)
        \/ \E k \in Kind, name \in Link : Registry!AddLink(k, a, name)
        \/ Registry!WhitelistAdd(a) \/ Registry!WhitelistRemove(a)
        \/ \E on \in BOOLEAN : Registry!SetFrozen(a, on)
    BY <1>2 DEF Registry!Next
  <2>1. CASE \E text \in Text, category \in Category : Registry!RegisterAsset(a, text, category)
    <3> PICK text \in Text, category \in Category : Registry!RegisterAsset(a, text, category)
      BY <2>1
    <3>1. /\ ~Registry!Registered(a)
          /\ \E record : metadata' = [metadata EXCEPT ![a] = record]
      BY DEF Registry!RegisterAsset
    <3> QED
      BY <3>1, RegisterKeeps, OneRecordStays
  <2>2. CASE \E text \in Text : Registry!UpdateMetadata(a, text)
    <3> PICK text \in Text : Registry!UpdateMetadata(a, text)
      BY <2>2
    <3> PICK record : record = [Registry!Counted(a) EXCEPT !.text = text]
      OBVIOUS
    <3>1. /\ Registry!Registered(a) /\ Registry!SaveWithVersion(a, record)
          /\ UNCHANGED <<asset_list, category_index, status_index, links, frozen>>
      BY DEF Registry!UpdateMetadata
    <3> QED
      BY <3>1, SaveKeeps, OneRecordStays
  <2>3. CASE \E category \in Category : Registry!UpdateCategory(a, category)
    <3> PICK category \in Category : Registry!UpdateCategory(a, category)
      BY <2>3
    <3> PICK record : record = [Registry!Counted(a) EXCEPT !.category = category]
      OBVIOUS
    <3>1. metadata' = [metadata EXCEPT ![a] = record] /\ Registry!Registered(a)
      BY DEF Registry!UpdateCategory, Registry!SaveWithVersion
    <3>2. record.status = metadata[a].status
      BY <3>1, RegisteredRecord DEF RegistryInv, Registry!Counted, Registry!AssetMetadata
    <3> QED
      BY <3>1, <3>2, CategoryKeeps, OneRecordStays
  <2>4. CASE \E rating \in Rating : Registry!UpdateRisk(a, rating)
    <3> PICK rating \in Rating : Registry!UpdateRisk(a, rating)
      BY <2>4
    <3> PICK record : record = [Registry!Counted(a) EXCEPT !.rating = rating]
      OBVIOUS
    <3>1. /\ Registry!Registered(a) /\ Registry!SaveWithVersion(a, record)
          /\ UNCHANGED <<asset_list, category_index, status_index, links, frozen>>
      BY DEF Registry!UpdateRisk
    <3> QED
      BY <3>1, SaveKeeps, OneRecordStays
  <2>5. CASE \E compliance \in Compliance : Registry!UpdateCompliance(a, compliance)
    <3> PICK compliance \in Compliance : Registry!UpdateCompliance(a, compliance)
      BY <2>5
    <3> PICK record : record = [Registry!Counted(a) EXCEPT !.compliance = compliance]
      OBVIOUS
    <3>1. /\ Registry!Registered(a) /\ Registry!SaveWithVersion(a, record)
          /\ UNCHANGED <<asset_list, category_index, status_index, links, frozen>>
      BY DEF Registry!UpdateCompliance
    <3> QED
      BY <3>1, SaveKeeps, OneRecordStays
  <2>6. CASE \/ \E s \in Registry!Status : Registry!UpdateStatus(a, s)
             \/ Registry!DeactivateAsset(a)
             \/ Registry!RestoreAsset(a)
    BY <2>6, StatusSteps
  <2>7. CASE \E k \in Kind, name \in Link : Registry!AddLink(k, a, name)
    BY <1>a, <2>7, LinkKeeps
  <2>8. CASE Registry!WhitelistAdd(a) \/ Registry!WhitelistRemove(a)
    <3>1. UNCHANGED <<metadata, versions, asset_list, category_index, status_index, links, frozen>>
      BY <2>8 DEF Registry!WhitelistAdd, Registry!WhitelistRemove
    <3> QED
      BY <1>a, <1>b, <3>1, AsideKeeps
  <2>9. CASE \E on \in BOOLEAN : Registry!SetFrozen(a, on)
    <3>1. /\ UNCHANGED <<metadata, versions, asset_list, category_index, status_index, links>>
          /\ frozen' \subseteq Asset
      BY <1>b, <2>9 DEF Registry!SetFrozen
    <3> QED
      BY <1>a, <1>b, <3>1, AsideKeeps
  <2> QED
    BY <2>1, <2>2, <2>3, <2>4, <2>5, <2>6, <2>7, <2>8, <2>9
<1> QED
  BY <1>1, <1>2
-----------------------------------------------------------------------------
\* The invariant holds throughout.
LEMMA RegistryInvariant ==
    ASSUME Registry!RegistryConstants
    PROVE  Registry!Spec => []RegistryInv
<1>1. Registry!Init => RegistryInv
  BY InitRegistry
<1>2. RegistryInv /\ [Registry!Next]_(Registry!registryVars) => RegistryInv'
  BY NextRegistry
<1> QED
  BY <1>1, <1>2, PTL DEF Registry!Spec

\* The lists of the registry say what its records say, each asset once, and the versions
\* kept of an asset are its latest without a gap, for any number of assets, categories and
\* versions.
THEOREM RegistryAgrees ==
    ASSUME Registry!RegistryConstants
    PROVE  Registry!Spec =>
              [](Registry!TypeOK /\ Registry!IndexesTrue /\ Registry!HistoryTrue)
<1>1. RegistryInv => Registry!TypeOK /\ Registry!IndexesTrue /\ Registry!HistoryTrue
  BY RegistryChecked
<1> QED
  BY <1>1, RegistryInvariant, PTL

\* A deprecated asset stays deprecated, whatever calls follow.
THEOREM DeprecationIsFinal ==
    ASSUME Registry!RegistryConstants
    PROVE  Registry!Spec => [][Registry!DeprecatedFinal]_(Registry!registryVars)
<1>1. RegistryInv /\ [Registry!Next]_(Registry!registryVars)
          => [Registry!DeprecatedFinal]_(Registry!registryVars)
  BY NextRegistry DEF StaysDeprecated, Registry!DeprecatedFinal
<1> QED
  BY <1>1, RegistryInvariant, PTL DEF Registry!Spec
==============================================================================
