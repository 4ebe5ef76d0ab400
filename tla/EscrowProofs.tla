----------------------------- MODULE EscrowProofs -----------------------------
(***************************************************************************)
(* Proofs about module Escrow, for every value of its constants.           *)
(***************************************************************************)
EXTENDS Escrow, TLAPS, FiniteSetTheorems, SumTheorems

\* A fee of at most MaxFeeBps leaves something of every positive deposit.
LEMMA FeeBelowDeposit ==
    ASSUME NEW amount \in Nat, amount > 0, NEW bps \in 0 .. MaxFeeBps
    PROVE  FeeOf(amount, bps) \in Nat /\ FeeOf(amount, bps) < amount
<1> DEFINE p == amount * bps
<1>1. p \in Nat /\ p <= amount * 2000
  BY DEF MaxFeeBps
<1>2. p < amount * 10000
  BY <1>1
<1> HIDE DEF p
<1>3. p \div 10000 \in Nat /\ p \div 10000 < amount
  BY <1>1, <1>2
<1>4. QED
  BY <1>3 DEF FeeOf, BpsDenominator, p

\* How often an id is listed in a batch is a number, positive if it is listed.
LEMMA OccurrencesType ==
    ASSUME NEW ids \in Batches, NEW id \in EscrowId
    PROVE  Occurrences(ids, id) \in Nat
<1>1. PICK n \in 2 .. MaxBatch : ids \in [1 .. n -> EscrowId]
  BY DEF Batches
<1>2. DOMAIN ids = 1 .. n
  BY <1>1
<1>3. IsFiniteSet(DOMAIN ids)
  BY <1>2, FS_Interval, EscrowAssumption
<1>4. IsFiniteSet({k \in DOMAIN ids : ids[k] = id})
  BY <1>3, FS_Subset
<1>5. QED
  BY <1>4, FS_CardinalityType DEF Occurrences

-----------------------------------------------------------------------------
\* What create_escrow relies on: an id the counter has not reached is untouched.
Unused(id) ==
    ~Exists(id) => /\ escrows[id] = NoEscrow
                   /\ paid[id] = NoPayouts
                   /\ disputes[id] = NoDispute
                   /\ id \notin challenged

\* A challenge in progress is on record.
ChallengeRecorded(id) == escrows[id].status = "Challenged" => id \in challenged

\* The inductive invariant: the types, the checked invariants, and the two facts
\* above that they need.
IInv ==
    /\ TypeOK
    /\ \A id \in EscrowId : Unused(id) /\ ChallengeRecorded(id)
    /\ ExactSettlement
    /\ DisputeQuorum
    /\ RefundJustified

\* The same facts, of one escrow.
ExactOK(id) ==
    LET e == escrows[id]
        settled == paid[id].released + paid[id].refunded
    IN  /\ e.released_amount = paid[id].released + paid[id].recovered
        /\ e.released_amount <= e.amount
        /\ settled <= Releasable(e)
        /\ e.status \in Open =>
              e.released_amount < Releasable(e) /\ paid[id].refunded = 0
        /\ e.status = "Released" /\ paid[id].recovered = 0 =>
              settled = Releasable(e) /\ paid[id].refunded = 0
        /\ e.status = "Refunded" /\ paid[id].recovered = 0 =>
              settled = Releasable(e)

QuorumOK(id) ==
    /\ HasDispute(id) =>
          /\ id \in challenged
          /\ disputes[id].approvals # {}
          /\ disputes[id].resolved <=>
                Cardinality(disputes[id].approvals) >= disputes[id].required_approvals
    /\ id \in challenged =>
          (\/ escrows[id].status = "Pending"
           \/ escrows[id].status = "Released" /\ paid[id].recovered = 0
           => disputes[id].resolved /\ disputes[id].decision_release)

RefundOK(id) ==
    paid[id].refunded > 0 =>
        \/ ~escrows[id].verified
        \/ id \in challenged /\ disputes[id].resolved /\ ~disputes[id].decision_release

RecordOK(id) ==
    Unused(id) /\ ChallengeRecorded(id) /\ ExactOK(id) /\ QuorumOK(id) /\ RefundOK(id)

\* What a step that leaves one escrow alone keeps of it.
Same(id) ==
    /\ escrows'[id] = escrows[id]
    /\ disputes'[id] = disputes[id]
    /\ paid'[id] = paid[id]
    /\ id \in challenged' <=> id \in challenged

\* The invariant follows from its clause for each escrow.
LEMMA IInvByRecord == IInv <=> TypeOK /\ \A id \in EscrowId : RecordOK(id)
<1>1. ExactSettlement <=> \A id \in EscrowId : ExactOK(id)
  BY DEF ExactSettlement, ExactOK
<1>2. TypeOK => (DisputeQuorum <=> \A id \in EscrowId : QuorumOK(id))
  <2>1. TypeOK => challenged \subseteq EscrowId
    BY DEF TypeOK
  <2>2. QED
    BY <2>1 DEF DisputeQuorum, QuorumOK
<1>3. RefundJustified <=> \A id \in EscrowId : RefundOK(id)
  BY DEF RefundJustified, RefundOK
<1>4. QED
  BY <1>1, <1>2, <1>3 DEF IInv, RecordOK

\* The same of the next state.
LEMMA IInvByRecordNext == IInv' <=> TypeOK' /\ \A id \in EscrowId : RecordOK(id)'
<1>1. ExactSettlement' <=> \A id \in EscrowId : ExactOK(id)'
  BY DEF ExactSettlement, ExactOK
<1>2. TypeOK' => (DisputeQuorum' <=> \A id \in EscrowId : QuorumOK(id)')
  <2>1. TypeOK' => challenged' \subseteq EscrowId
    BY DEF TypeOK
  <2>2. QED
    BY <2>1 DEF DisputeQuorum, QuorumOK
<1>3. RefundJustified' <=> \A id \in EscrowId : RefundOK(id)'
  BY DEF RefundJustified, RefundOK
<1>4. QED
  BY <1>1, <1>2, <1>3 DEF IInv, RecordOK

\* A step that leaves the escrows alone keeps the invariant.
LEMMA SameKeeps ==
    ASSUME NEW id \in EscrowId, RecordOK(id), Same(id)
    PROVE  RecordOK(id)'
BY DEF RecordOK, Same, Unused, ChallengeRecorded, ExactOK, QuorumOK, RefundOK,
       Exists, HasDispute, Releasable

\* The part of the state the invariant is about.
books == <<escrow_seq, escrows, challenged, disputes, paid>>

\* With no escrow the invariant holds.
LEMMA InitIInv == Init => IInv
<1> SUFFICES ASSUME Init PROVE IInv
  OBVIOUS
<1> USE EscrowAssumption
<1>1. TypeOK
  <2>1. NoEscrow \in EscrowDeposit
    BY DEF NoEscrow, EscrowDeposit, Seconds
  <2>2. NoDispute \in DisputeResolution /\ NoPayouts \in Payouts
    BY DEF NoDispute, DisputeResolution, NoPayouts, Payouts
  <2>3. \A id \in EscrowId : Exists(id) <=> id < escrow_seq
    BY DEF Init, Exists, NoEscrow, EscrowId
  <2>4. approvers \in Seq(Address) /\ ValidPanel(approvers, approval_threshold)
    BY DEF Init, ValidPanel
  <2>5. fee_collector \in Address /\ fee_bps \in 0 .. MaxFeeBps
    BY DEF Init, MaxFeeBps
  <2>6. emergency_pause \in BOOLEAN /\ breaker_tripped \in BOOLEAN
    BY DEF Init
  <2>7. /\ now \in Seconds /\ escrow_seq \in 0 .. MaxEscrows
        /\ accrued_fees \in Nat /\ collected \in Nat
    BY DEF Init, Seconds
  <2>8. breaker_guardian \in Address /\ challenged \subseteq EscrowId
    BY DEF Init
  <2>9. lock_period \in [Route -> Seconds]
    BY DEF Init
  <2>10. /\ escrows \in [EscrowId -> EscrowDeposit]
         /\ disputes \in [EscrowId -> DisputeResolution]
         /\ paid \in [EscrowId -> Payouts]
    BY <2>1, <2>2 DEF Init
  <2>11. QED
    BY <2>3, <2>4, <2>5, <2>6, <2>7, <2>8, <2>9, <2>10 DEF TypeOK
<1>2. ASSUME NEW id \in EscrowId PROVE RecordOK(id)
  BY DEF Init, RecordOK, Unused, ChallengeRecorded, ExactOK, QuorumOK, RefundOK,
         NoEscrow, NoPayouts, NoDispute, Releasable, Open, HasDispute
<1>3. QED
  BY <1>1, <1>2, IInvByRecord

\* A call that leaves the books alone keeps the invariant once it keeps the types
\* of what it does write.
LEMMA BooksUnchanged ==
    ASSUME IInv, UNCHANGED books, TypeOK'
    PROVE  IInv'
<1>1. ASSUME NEW id \in EscrowId PROVE RecordOK(id)'
  BY SameKeeps, IInvByRecord DEF Same, books
<1>2. QED
  BY <1>1, IInvByRecordNext

\* The calls of the administrator and the guardian, fees and time.
LEMMA ConfigureStep ==
    ASSUME IInv, NEW caller \in Address, Configure(caller)
    PROVE  IInv'
<1> USE EscrowAssumption DEF IInv
<1>1. ASSUME NEW route \in Route, NEW secs \in LockChoices,
             SetLockPeriod(caller, route, secs)
      PROVE  TypeOK' /\ UNCHANGED books
  BY <1>1 DEF SetLockPeriod, TypeOK, books, fees, panel, breaker, ledger, Exists, ValidPanel
<1>2. ASSUME NEW collector \in Collectors, NEW bps \in BpsChoices,
             SetFeeConfig(caller, collector, bps)
      PROVE  TypeOK' /\ UNCHANGED books
  BY <1>2 DEF SetFeeConfig, TypeOK, books, panel, breaker, ledger, Exists, ValidPanel
<1>3. ASSUME NEW list \in ApproverLists, NEW threshold \in 0 .. Len(list),
             SetApprovers(caller, list, threshold)
      PROVE  TypeOK' /\ UNCHANGED books
  BY <1>3 DEF SetApprovers, TypeOK, books, fees, breaker, ledger, Exists, ValidPanel
<1>4. ASSUME NEW guardian \in Guardians, SetBreakerGuardian(caller, guardian)
      PROVE  TypeOK' /\ UNCHANGED books
  BY <1>4 DEF SetBreakerGuardian, TypeOK, books, fees, panel, ledger, Exists, ValidPanel
<1>5. QED
  BY <1>1, <1>2, <1>3, <1>4, BooksUnchanged DEF Configure

\* The steps that only set guards keep the invariant.
LEMMA GuardStep ==
    ASSUME IInv, NEW caller \in Address, Guard(caller)
    PROVE  IInv'
<1> USE DEF IInv, TypeOK, books, config, fees, panel, ledger, Exists, ValidPanel
<1>1. ASSUME NEW paused \in BOOLEAN, SetEmergencyPause(caller, paused)
      PROVE  TypeOK' /\ UNCHANGED books
  BY <1>1 DEF SetEmergencyPause
<1>2. ASSUME TripCircuitBreaker(caller) PROVE TypeOK' /\ UNCHANGED books
  BY <1>2 DEF TripCircuitBreaker
<1>3. ASSUME ResetCircuitBreaker(caller) PROVE TypeOK' /\ UNCHANGED books
  BY <1>3 DEF ResetCircuitBreaker
<1>4. QED
  BY <1>1, <1>2, <1>3, BooksUnchanged DEF Guard

\* Collecting the fees and the passing of time keep the invariant.
LEMMA CollectOrTickStep ==
    ASSUME IInv,
           \/ \E caller \in Address, amount \in Collections : CollectFees(caller, amount)
           \/ Tick
    PROVE  IInv'
<1> USE EscrowAssumption
       DEF IInv, TypeOK, books, config, fees, panel, ledger, Exists, ValidPanel, Seconds
<1>1. ASSUME NEW caller \in Address, NEW amount \in Collections, CollectFees(caller, amount)
      PROVE  TypeOK' /\ UNCHANGED books
  BY <1>1 DEF CollectFees
<1>2. ASSUME Tick PROVE TypeOK' /\ UNCHANGED books
  BY <1>2 DEF Tick
<1>3. QED
  BY <1>1, <1>2, BooksUnchanged

-----------------------------------------------------------------------------
\* The calls on one escrow.
LEMMA CreateStep ==
    ASSUME IInv, NEW parties \in Parties, NEW route \in Route, NEW amount \in Amounts,
           CreateEscrow(parties, route, amount)
    PROVE  IInv'
<1> DEFINE new == NewEscrow(parties, route, amount)
<1>1. TypeOK /\ \A i \in EscrowId : RecordOK(i)
  BY IInvByRecord
<1>0. PICK id \in EscrowId : id = escrow_seq
  BY <1>1, EscrowAssumption DEF TypeOK, CreateEscrow, EscrowId
<1>2. ~Exists(id)
  BY <1>0, <1>1, EscrowAssumption DEF TypeOK, EscrowId
<1>3. amount \in Nat /\ amount > 0 /\ fee_bps \in 0 .. MaxFeeBps
  BY <1>1, EscrowAssumption DEF TypeOK, CreateEscrow
<1>4. FeeOf(amount, fee_bps) \in Nat /\ FeeOf(amount, fee_bps) < amount
  BY <1>3, FeeBelowDeposit
<1>5. SaturatingAdd(now, lock_period[route]) \in Seconds
  BY <1>1, EscrowAssumption DEF TypeOK, SaturatingAdd, Seconds
<1>6. new \in EscrowDeposit
  BY <1>3, <1>4, <1>5, EscrowAssumption DEF NewEscrow, EscrowDeposit, Open
<1>7. escrows' = [escrows EXCEPT ![id] = new] /\ escrow_seq' = escrow_seq + 1
  BY <1>0 DEF CreateEscrow
<1>8. TypeOK'
  <2>1. escrows' \in [EscrowId -> EscrowDeposit]
    BY <1>1, <1>6, <1>7 DEF TypeOK
  <2>2. \A i \in EscrowId : Exists(i)' <=> i < escrow_seq'
    BY <1>0, <1>1, <1>2, <1>7, EscrowAssumption DEF TypeOK, Exists, NewEscrow, EscrowId
  <2>3. escrow_seq' \in 0 .. MaxEscrows /\ accrued_fees' \in Nat
    BY <1>1, <1>4, EscrowAssumption DEF TypeOK, CreateEscrow
  <2>4. QED
    BY <1>1, <2>1, <2>2, <2>3
       DEF TypeOK, CreateEscrow, config, fees, panel, ledger, ValidPanel
<1>9. ASSUME NEW i \in EscrowId, i # id PROVE RecordOK(i)'
  BY <1>1, <1>2, <1>7, <1>9, SameKeeps DEF Same, CreateEscrow, TypeOK, ledger
<1>10. RecordOK(id)'
  <2>1. escrows'[id] = new /\ paid'[id] = NoPayouts /\ disputes'[id] = NoDispute
        /\ id \notin challenged'
    BY <1>1, <1>2, <1>7 DEF TypeOK, CreateEscrow, RecordOK, Unused, ledger
  <2>2. new.status = "Pending" /\ new.released_amount = 0 /\ Releasable(new) > 0
        /\ Releasable(new) \in Int /\ new.released_amount <= new.amount
    BY <1>3, <1>4 DEF NewEscrow, Releasable
  <2>3. Unused(id)' /\ ChallengeRecorded(id)'
    BY <2>1, <2>2 DEF Unused, ChallengeRecorded, Exists
  <2>4. ExactOK(id)'
    BY <2>1, <2>2 DEF ExactOK, NoPayouts, Releasable
  <2>5. QuorumOK(id)' /\ RefundOK(id)'
    BY <2>1 DEF QuorumOK, RefundOK, NoPayouts, NoDispute, HasDispute
  <2>6. QED
    BY <2>3, <2>4, <2>5 DEF RecordOK
<1>11. QED
  BY <1>8, <1>9, <1>10, IInvByRecordNext

\* To keep the invariant, a call on the books of one existing escrow keeps its
\* types and the facts about that escrow.
LEMMA OneRecord ==
    ASSUME IInv, NEW id \in EscrowId, TypeOK', RecordOK(id)',
           \A i \in EscrowId : i # id => Same(i)
    PROVE  IInv'
<1>1. ASSUME NEW i \in EscrowId PROVE RecordOK(i)'
  <2>1. CASE i = id
    BY <2>1
  <2>2. CASE i # id
    BY <2>2, SameKeeps, IInvByRecord
  <2>3. QED
    BY <2>1, <2>2
<1>2. QED
  BY <1>1, IInvByRecordNext

\* Writing a record of the right type in place of another keeps the types.
LEMMA RecordWritten ==
    ASSUME TypeOK, NEW id \in EscrowId, NEW e \in EscrowDeposit,
           escrows' = [escrows EXCEPT ![id] = e], escrow_seq' = escrow_seq,
           Exists(id), e.status # "None"
    PROVE  /\ escrows' \in [EscrowId -> EscrowDeposit]
           /\ \A i \in EscrowId : Exists(i)' <=> i < escrow_seq'
BY DEF TypeOK, Exists

\* A verification keeps the invariant.
LEMMA VerificationStep ==
    ASSUME IInv, NEW caller \in Address, NEW id \in EscrowId, NEW verified \in BOOLEAN,
           SyncVerification(caller, id, verified)
    PROVE  IInv'
<1>1. TypeOK /\ RecordOK(id)
  BY IInvByRecord
<1>2. /\ escrows' = [escrows EXCEPT ![id].verified = verified]
      /\ escrows[id].status \in Open
  BY <1>1 DEF SyncVerification, TypeOK, EscrowDeposit, Exists
<1>3. TypeOK'
  <2> DEFINE e == [escrows[id] EXCEPT !.verified = verified]
  <2>1. escrows' = [escrows EXCEPT ![id] = e] /\ e \in EscrowDeposit /\ e.status # "None"
        /\ Exists(id)
    BY <1>1, <1>2, ZenonT(40) DEF TypeOK, EscrowDeposit, Open, Exists
  <2>2. QED
    BY <1>1, <2>1, RecordWritten DEF TypeOK, SyncVerification, config, fees, panel, ledger,
       ValidPanel
<1>4. RecordOK(id)'
  BY <1>1, <1>2, SMTT(30) DEF TypeOK, SyncVerification, ledger, RecordOK, Unused, ChallengeRecorded,
     ExactOK, QuorumOK, RefundOK, Exists, HasDispute, Releasable, EscrowDeposit, Payouts, Open
<1>5. \A i \in EscrowId : i # id => Same(i)
  BY <1>1, <1>2 DEF TypeOK, Same, SyncVerification, ledger
<1>6. QED
  BY <1>3, <1>4, <1>5, OneRecord

\* A challenge keeps the invariant.
LEMMA ChallengeStep ==
    ASSUME IInv, NEW id \in EscrowId, ChallengeEscrow(id)
    PROVE  IInv'
<1>1. TypeOK /\ RecordOK(id)
  BY IInvByRecord
<1>2. /\ escrows' = [escrows EXCEPT ![id].status = "Challenged"]
      /\ escrows[id].status = "Pending" /\ id \notin challenged
      /\ challenged' = challenged \cup {id}
  BY DEF ChallengeEscrow
<1>3. TypeOK'
  <2> DEFINE e == [escrows[id] EXCEPT !.status = "Challenged"]
  <2>1. escrows' = [escrows EXCEPT ![id] = e] /\ e \in EscrowDeposit /\ e.status # "None"
        /\ Exists(id)
    BY <1>1, <1>2, ZenonT(40) DEF TypeOK, EscrowDeposit, Open, Exists
  <2>2. QED
    BY <1>1, <1>2, <2>1, RecordWritten DEF TypeOK, ChallengeEscrow, config, fees, panel,
       ledger, ValidPanel
<1>4. RecordOK(id)'
  BY <1>1, <1>2 DEF TypeOK, ChallengeEscrow, ledger, RecordOK, Unused, ChallengeRecorded,
     ExactOK, QuorumOK, RefundOK, Exists, HasDispute, Releasable, EscrowDeposit, Payouts, Open
<1>5. \A i \in EscrowId : i # id => Same(i)
  BY <1>1, <1>2 DEF TypeOK, Same, ChallengeEscrow, ledger
<1>6. QED
  BY <1>3, <1>4, <1>5, OneRecord

\* A vote on a dispute keeps the invariant.
LEMMA ResolveStep ==
    ASSUME IInv, NEW caller \in Address, NEW id \in EscrowId, NEW release_allowed \in BOOLEAN,
           ResolveChallenge(caller, id, release_allowed)
    PROVE  IInv'
<1> DEFINE dispute == OpenDispute(id, release_allowed)
           decided == Approve(dispute, caller)
           status == IF decided.resolved /\ release_allowed
                     THEN "Pending" ELSE escrows[id].status
           e == [escrows[id] EXCEPT !.status = status]
<1>1. TypeOK /\ RecordOK(id)
  BY IInvByRecord
<1>2. /\ escrows[id].status = "Challenged" /\ ~dispute.resolved
      /\ dispute.decision_release = release_allowed
      /\ disputes' = [disputes EXCEPT ![id] = decided]
      /\ escrows' = [escrows EXCEPT ![id] = e]
      /\ paid' = paid /\ challenged' = challenged /\ escrow_seq' = escrow_seq
  BY <1>1 DEF ResolveChallenge, ledger, TypeOK
<1>3. /\ dispute \in DisputeResolution
      /\ dispute.required_approvals > 0
  BY <1>1 DEF OpenDispute, TypeOK, HasDispute, DisputeResolution, ValidPanel
<1>4. /\ decided \in DisputeResolution
      /\ decided.required_approvals = dispute.required_approvals
      /\ decided.decision_release = release_allowed
      /\ decided.approvals # {}
      /\ decided.resolved <=>
            Cardinality(decided.approvals) >= decided.required_approvals
  <2> DEFINE votes == dispute.approvals \cup {caller}
             enough == Cardinality(votes) >= dispute.required_approvals
  <2> HIDE DEF dispute
  <2>1. decided = [dispute EXCEPT !.approvals = votes, !.resolved = enough]
    BY DEF Approve
  <2>2. votes \in SUBSET Address /\ votes # {} /\ enough \in BOOLEAN
    BY <1>3 DEF DisputeResolution
  <2> HIDE DEF enough, votes
  <2>3. /\ decided \in DisputeResolution
        /\ decided.required_approvals = dispute.required_approvals
        /\ decided.decision_release = dispute.decision_release
        /\ decided.approvals = votes
        /\ decided.resolved = enough
    BY <1>3, <2>1, <2>2 DEF DisputeResolution
  <2>4. QED
    BY <1>2, <2>2, <2>3 DEF enough
<1>5. id \in challenged /\ paid[id].refunded = 0 /\ Exists(id)
  BY <1>1, <1>2 DEF RecordOK, ChallengeRecorded, ExactOK, Open, Exists
<1>6. e \in EscrowDeposit /\ e.status \in Open
  BY <1>1, <1>2, ZenonT(40) DEF TypeOK, EscrowDeposit, Open
<1> HIDE DEF dispute, decided
<1>7. TypeOK'
  <2>1. e.status # "None"
    BY <1>6 DEF Open
  <2>2. /\ escrows' \in [EscrowId -> EscrowDeposit]
        /\ \A i \in EscrowId : Exists(i)' <=> i < escrow_seq'
    BY <1>1, <1>2, <1>5, <1>6, <2>1, RecordWritten
  <2>3. disputes' \in [EscrowId -> DisputeResolution]
    BY <1>1, <1>2, <1>4 DEF TypeOK
  <2>4. QED
    BY <1>1, <1>2, <2>2, <2>3
       DEF TypeOK, ResolveChallenge, config, fees, panel, ledger, ValidPanel
<1>8. RecordOK(id)'
  <2>1. /\ escrows'[id] = e /\ disputes'[id] = decided /\ paid'[id] = paid[id]
        /\ id \in challenged'
    BY <1>1, <1>2, <1>5 DEF TypeOK
  <2>2. /\ e.status = IF decided.resolved /\ release_allowed THEN "Pending" ELSE "Challenged"
        /\ e.amount = escrows[id].amount /\ e.fee_total = escrows[id].fee_total
        /\ e.released_amount = escrows[id].released_amount
    BY <1>1, <1>2 DEF TypeOK, EscrowDeposit
  <2>3. Unused(id)' /\ ChallengeRecorded(id)'
    BY <2>1, <2>2 DEF Unused, ChallengeRecorded, Exists
  <2>4. ExactOK(id)'
    BY <1>1, <1>2, <2>1, <2>2 DEF RecordOK, ExactOK, Releasable, Open
  <2>5. QuorumOK(id)'
    BY <1>3, <1>4, <2>1, <2>2 DEF QuorumOK, HasDispute
  <2>6. RefundOK(id)'
    BY <1>5, <2>1 DEF RefundOK
  <2>7. QED
    BY <2>3, <2>4, <2>5, <2>6 DEF RecordOK
<1>9. \A i \in EscrowId : i # id => Same(i)
  BY <1>1, <1>2 DEF TypeOK, Same
<1>10. QED
  BY <1>7, <1>8, <1>9, OneRecord

\* A payment within what the deposit still holds gives a record of the right type.
LEMMA PayOutType ==
    ASSUME NEW e \in EscrowDeposit, e.status # "None", NEW amount \in Nat
    PROVE  /\ PayOut(e, amount) \in EscrowDeposit
           /\ PayOut(e, amount).status # "None"
           /\ PayOut(e, amount).released_amount = e.released_amount + amount
           /\ Releasable(PayOut(e, amount)) = Releasable(e)
           /\ PayOut(e, amount).amount = e.amount
           /\ PayOut(e, amount).verified = e.verified
           /\ PayOut(e, amount).status =
                IF e.released_amount + amount >= Releasable(e) THEN "Released" ELSE e.status
<1> DEFINE total == e.released_amount + amount
           f == [e EXCEPT !.released_amount = total,
                          !.status = IF total >= Releasable(e) THEN "Released" ELSE @]
<1>1. PayOut(e, amount) = f
  BY DEF PayOut
<1>2. total \in Nat /\ e.status \in Open \cup Terminal \cup {"None"}
  BY DEF EscrowDeposit
<1>3. f \in EscrowDeposit
  BY <1>2 DEF EscrowDeposit, Terminal
<1>4. /\ f.released_amount = total /\ f.amount = e.amount /\ f.fee_total = e.fee_total
      /\ f.verified = e.verified
      /\ f.status = IF total >= Releasable(e) THEN "Released" ELSE e.status
  BY DEF EscrowDeposit
<1>5. QED
  BY <1>1, <1>3, <1>4 DEF Releasable

\* What a release, alone or in a batch, does to one escrow.
Released(id, amount) ==
    /\ escrows'[id] = PayOut(escrows[id], amount)
    /\ paid'[id] = [paid[id] EXCEPT !.released = @ + amount]
    /\ disputes'[id] = disputes[id]
    /\ id \in challenged' <=> id \in challenged

\* What a release writes keeps the invariant.
LEMMA ReleasedKeeps ==
    ASSUME TypeOK, NEW id \in EscrowId, NEW amount \in Int, NEW caller \in Address,
           RecordOK(id), CanRelease(escrows[id], caller, amount), Released(id, amount)
    PROVE  /\ RecordOK(id)'
           /\ escrows'[id] \in EscrowDeposit /\ paid'[id] \in Payouts
           /\ Exists(id) /\ Exists(id)'
<1> DEFINE e == escrows[id]
           f == PayOut(e, amount)
<1>1. /\ e \in EscrowDeposit /\ paid[id] \in Payouts /\ e.status = "Pending"
      /\ amount \in Nat /\ amount > 0 /\ amount <= Releasable(e) - e.released_amount
  BY DEF TypeOK, CanRelease
<1>2. /\ f \in EscrowDeposit /\ f.status # "None"
      /\ f.released_amount = e.released_amount + amount
      /\ Releasable(f) = Releasable(e) /\ f.amount = e.amount
      /\ f.status = IF e.released_amount + amount >= Releasable(e)
                    THEN "Released" ELSE "Pending"
  BY <1>1, PayOutType
<1>3. escrows'[id] = f
  BY DEF Released
<1> HIDE DEF f
<1>4. Exists(id) /\ Exists(id)' /\ paid'[id] \in Payouts
  BY <1>1, <1>2, <1>3 DEF Exists, Released, Payouts
<1>5. ExactOK(id)'
  BY <1>1, <1>2, <1>3 DEF RecordOK, ExactOK, Open, Released, Payouts, Releasable,
     EscrowDeposit
<1>6. QuorumOK(id)' /\ ChallengeRecorded(id)' /\ Unused(id)'
  BY <1>1, <1>2, <1>3, <1>4
     DEF RecordOK, QuorumOK, ChallengeRecorded, Unused, Released, HasDispute, Payouts
<1>7. RefundOK(id)'
  BY <1>1, <1>3 DEF RecordOK, ExactOK, Open, RefundOK, Released, Payouts
<1>8. QED
  BY <1>2, <1>3, <1>4, <1>5, <1>6, <1>7 DEF RecordOK

\* A release of one escrow keeps the invariant.
LEMMA ReleaseStep ==
    ASSUME IInv, NEW caller \in Address, NEW id \in EscrowId, NEW amount \in Payments,
           ReleaseEscrow(caller, id, amount)
    PROVE  IInv'
<1>1. TypeOK /\ RecordOK(id) /\ amount \in Int
  BY IInvByRecord, EscrowAssumption
<1>2. /\ CanRelease(escrows[id], caller, amount) /\ Released(id, amount)
      /\ escrows' = [escrows EXCEPT ![id] = PayOut(escrows[id], amount)]
      /\ paid' = [paid EXCEPT ![id] = [paid[id] EXCEPT !.released = @ + amount]]
  BY <1>1 DEF ReleaseEscrow, Released, TypeOK
<1>3. /\ RecordOK(id)' /\ Exists(id) /\ Exists(id)'
      /\ escrows'[id] \in EscrowDeposit /\ paid'[id] \in Payouts
  BY <1>1, <1>2, ReleasedKeeps
<1>4. TypeOK'
  <2>1. /\ escrows' \in [EscrowId -> EscrowDeposit] /\ paid' \in [EscrowId -> Payouts]
        /\ \A i \in EscrowId : Exists(i)' <=> Exists(i)
    BY <1>1, <1>2, <1>3 DEF TypeOK, Exists
  <2>2. QED
    BY <1>1, <2>1 DEF TypeOK, ReleaseEscrow, config, fees, panel, ValidPanel
<1>5. \A i \in EscrowId : i # id => Same(i)
  BY <1>1, <1>2 DEF TypeOK, Same, ReleaseEscrow
<1>6. QED
  BY <1>3, <1>4, <1>5, OneRecord

\* A batch of releases keeps the invariant.
LEMMA BatchStep ==
    ASSUME IInv, NEW caller \in Address, NEW ids \in Batches, NEW amount \in Payments,
           BatchRelease(caller, ids, amount)
    PROVE  IInv'
<1> DEFINE due(id) == Occurrences(ids, id) * amount
<1>1. TypeOK /\ (\A i \in EscrowId : RecordOK(i)) /\ amount \in Int
  BY IInvByRecord, EscrowAssumption
<1>2. ASSUME NEW i \in EscrowId PROVE due(i) \in Int
  BY <1>1, OccurrencesType
<1>3. ASSUME NEW i \in EscrowId, i \notin Range(ids) PROVE Same(i)
  BY <1>3 DEF BatchRelease, Same
<1>4. ASSUME NEW i \in EscrowId, i \in Range(ids)
      PROVE  CanRelease(escrows[i], caller, due(i)) /\ Released(i, due(i))
  BY <1>4 DEF BatchRelease, Released
<1>5. ASSUME NEW i \in EscrowId
      PROVE  /\ RecordOK(i)' /\ escrows'[i] \in EscrowDeposit /\ paid'[i] \in Payouts
             /\ Exists(i)' <=> Exists(i)
  <2>1. CASE i \in Range(ids)
    <3> HIDE DEF due
    <3>1. QED
      BY <1>1, <1>2, <1>4, <2>1, ReleasedKeeps
  <2>2. CASE i \notin Range(ids)
    BY <1>1, <1>3, <2>2, SameKeeps DEF Same, TypeOK, Exists
  <2>3. QED
    BY <2>1, <2>2
<1>6. TypeOK'
  <2>1. /\ escrows' = [i \in EscrowId |-> escrows'[i]]
        /\ paid' = [i \in EscrowId |-> paid'[i]]
    BY DEF BatchRelease
  <2>2. escrows' \in [EscrowId -> EscrowDeposit] /\ paid' \in [EscrowId -> Payouts]
    BY <1>5, <2>1
  <2>3. QED
    BY <1>1, <1>5, <2>2 DEF TypeOK, BatchRelease, config, fees, panel, ValidPanel
<1>7. QED
  BY <1>5, <1>6, IInvByRecordNext

\* A refund keeps the invariant.
LEMMA RefundStep ==
    ASSUME IInv, NEW caller \in Address, NEW id \in EscrowId, RefundEscrow(caller, id)
    PROVE  IInv'
<1> DEFINE e == escrows[id]
           f == [e EXCEPT !.status = "Refunded"]
           refund == e.amount - e.released_amount - e.fee_total
           out == [paid[id] EXCEPT !.refunded = @ + refund]
<1>1. TypeOK /\ RecordOK(id) /\ e \in EscrowDeposit /\ paid[id] \in Payouts
  BY IInvByRecord DEF TypeOK
<1>2. /\ e.status \in Open /\ RefundAllowed(id) /\ refund > 0
      /\ escrows' = [escrows EXCEPT ![id] = f]
      /\ paid' = [paid EXCEPT ![id] = out]
      /\ disputes' = disputes /\ challenged' = challenged /\ escrow_seq' = escrow_seq
  BY <1>1 DEF RefundEscrow, TypeOK
<1>3. Exists(id) /\ refund \in Nat
  BY <1>1, <1>2 DEF Exists, Open, EscrowDeposit
<1>4. /\ f \in EscrowDeposit /\ f.status = "Refunded" /\ f.verified = e.verified
      /\ f.released_amount = e.released_amount /\ Releasable(f) = Releasable(e)
  BY <1>1 DEF EscrowDeposit, Terminal, Releasable
<1>5. /\ out \in Payouts /\ out.released = paid[id].released
      /\ out.recovered = paid[id].recovered /\ out.refunded = paid[id].refunded + refund
  BY <1>1, <1>3 DEF Payouts
<1>6. escrows'[id] = f /\ paid'[id] = out
  BY <1>1, <1>2 DEF TypeOK
<1> HIDE DEF f, out
<1>7. TypeOK'
  <2>1. /\ escrows' \in [EscrowId -> EscrowDeposit]
        /\ \A i \in EscrowId : Exists(i)' <=> i < escrow_seq'
    BY <1>1, <1>2, <1>3, <1>4, RecordWritten
  <2>2. paid' \in [EscrowId -> Payouts]
    BY <1>1, <1>2, <1>5 DEF TypeOK
  <2>3. QED
    BY <1>1, <2>1, <2>2 DEF TypeOK, RefundEscrow, config, fees, panel, ValidPanel
<1>8. RecordOK(id)'
  <2>1. ExactOK(id)'
    BY <1>1, <1>2, <1>4, <1>5, <1>6
       DEF RecordOK, ExactOK, Open, Releasable, EscrowDeposit, Payouts
  <2>2. Unused(id)' /\ ChallengeRecorded(id)'
    BY <1>4, <1>6 DEF Unused, ChallengeRecorded, Exists
  <2>3. QuorumOK(id)'
    BY <1>1, <1>2, <1>4, <1>6 DEF RecordOK, QuorumOK, HasDispute
  <2>4. RefundOK(id)'
    BY <1>1, <1>2, <1>4, <1>6
       DEF RecordOK, RefundOK, RefundAllowed, ChallengeRecorded, QuorumOK, HasDispute
  <2>5. QED
    BY <2>1, <2>2, <2>3, <2>4 DEF RecordOK
<1>9. \A i \in EscrowId : i # id => Same(i)
  BY <1>1, <1>2 DEF TypeOK, Same
<1>10. QED
  BY <1>7, <1>8, <1>9, OneRecord

\* An extension of the timelock keeps the invariant.
LEMMA ExtendStep ==
    ASSUME IInv, NEW caller \in Address, NEW id \in EscrowId, NEW secs \in LockChoices,
           ExtendLock(caller, id, secs)
    PROVE  IInv'
<1> DEFINE e == escrows[id]
           f == [e EXCEPT !.lock_until = SaturatingAdd(@, secs)]
<1>1. TypeOK /\ RecordOK(id) /\ e \in EscrowDeposit
  BY IInvByRecord DEF TypeOK
<1>2. /\ e.status \in Open /\ escrows' = [escrows EXCEPT ![id] = f]
      /\ disputes' = disputes /\ challenged' = challenged /\ paid' = paid
      /\ escrow_seq' = escrow_seq
  BY <1>1 DEF ExtendLock, TypeOK, ledger
<1>3. SaturatingAdd(e.lock_until, secs) \in Seconds
  BY <1>1, EscrowAssumption DEF SaturatingAdd, Seconds, EscrowDeposit
<1>4. /\ f \in EscrowDeposit /\ f.status = e.status /\ f.verified = e.verified
      /\ f.released_amount = e.released_amount /\ Releasable(f) = Releasable(e)
      /\ f.amount = e.amount
  BY <1>1, <1>3 DEF EscrowDeposit, Releasable
<1>5. escrows'[id] = f /\ Exists(id) /\ f.status # "None"
  BY <1>1, <1>2, <1>4 DEF TypeOK, Exists, Open
<1> HIDE DEF f
<1>6. TypeOK'
  <2>1. /\ escrows' \in [EscrowId -> EscrowDeposit]
        /\ \A i \in EscrowId : Exists(i)' <=> i < escrow_seq'
    BY <1>1, <1>2, <1>4, <1>5, RecordWritten
  <2>2. QED
    BY <1>1, <2>1 DEF TypeOK, ExtendLock, config, fees, panel, ledger, ValidPanel
<1>7. RecordOK(id)'
  <2>1. ExactOK(id)'
    BY <1>1, <1>2, <1>4, <1>5 DEF RecordOK, ExactOK
  <2>2. Unused(id)' /\ ChallengeRecorded(id)' /\ QuorumOK(id)' /\ RefundOK(id)'
    BY <1>1, <1>2, <1>4, <1>5 DEF RecordOK, Unused, ChallengeRecorded, QuorumOK, RefundOK,
       Exists, HasDispute
  <2>3. QED
    BY <2>1, <2>2 DEF RecordOK
<1>8. \A i \in EscrowId : i # id => Same(i)
  BY <1>1, <1>2 DEF TypeOK, Same
<1>9. QED
  BY <1>6, <1>7, <1>8, OneRecord

\* An emergency recovery keeps the invariant.
LEMMA RecoverStep ==
    ASSUME IInv, NEW caller \in Address, NEW id \in EscrowId, NEW amount \in Payments,
           EmergencyRecover(caller, id, amount)
    PROVE  IInv'
<1> DEFINE e == escrows[id]
           f == PayOut(e, amount)
           out == [paid[id] EXCEPT !.recovered = @ + amount]
<1>1. TypeOK /\ RecordOK(id) /\ e \in EscrowDeposit /\ paid[id] \in Payouts
  BY IInvByRecord DEF TypeOK
<1>2. /\ Exists(id) /\ amount > 0 /\ amount \in Nat
      /\ escrows' = [escrows EXCEPT ![id] = f] /\ paid' = [paid EXCEPT ![id] = out]
      /\ disputes' = disputes /\ challenged' = challenged /\ escrow_seq' = escrow_seq
  BY <1>1, EscrowAssumption DEF EmergencyRecover, TypeOK
<1>r. amount <= e.amount - e.released_amount
  BY DEF EmergencyRecover
<1>3. /\ f \in EscrowDeposit /\ f.status # "None" /\ f.verified = e.verified
      /\ f.released_amount = e.released_amount + amount
      /\ Releasable(f) = Releasable(e) /\ f.amount = e.amount
      /\ f.status = IF e.released_amount + amount >= Releasable(e)
                    THEN "Released" ELSE e.status
  BY <1>1, <1>2, PayOutType DEF Exists
<1>4. /\ out \in Payouts /\ out.released = paid[id].released
      /\ out.recovered = paid[id].recovered + amount /\ out.refunded = paid[id].refunded
  BY <1>1, <1>2 DEF Payouts
<1>5. escrows'[id] = f /\ paid'[id] = out
  BY <1>1, <1>2 DEF TypeOK
<1> HIDE DEF f, out
<1>6. TypeOK'
  <2>1. /\ escrows' \in [EscrowId -> EscrowDeposit]
        /\ \A i \in EscrowId : Exists(i)' <=> i < escrow_seq'
    BY <1>1, <1>2, <1>3, RecordWritten
  <2>2. paid' \in [EscrowId -> Payouts]
    BY <1>1, <1>2, <1>4 DEF TypeOK
  <2>3. QED
    BY <1>1, <2>1, <2>2 DEF TypeOK, EmergencyRecover, config, fees, panel, ValidPanel
<1>7. RecordOK(id)'
  <2>1. ExactOK(id)'
    BY <1>1, <1>2, <1>r, <1>3, <1>4, <1>5
       DEF RecordOK, ExactOK, Open, Releasable, EscrowDeposit, Payouts
  <2>2. Unused(id)' /\ ChallengeRecorded(id)' /\ RefundOK(id)'
    BY <1>1, <1>2, <1>3, <1>4, <1>5
       DEF RecordOK, Unused, ChallengeRecorded, RefundOK, Exists
  <2>3. QuorumOK(id)'
    BY <1>1, <1>2, <1>3, <1>4, <1>5 DEF RecordOK, QuorumOK, HasDispute, Payouts
  <2>4. QED
    BY <2>1, <2>2, <2>3 DEF RecordOK
<1>8. \A i \in EscrowId : i # id => Same(i)
  BY <1>1, <1>2 DEF TypeOK, Same
<1>9. QED
  BY <1>6, <1>7, <1>8, OneRecord

-----------------------------------------------------------------------------
\* Every step keeps the invariant.
LEMMA NextIInv == IInv /\ [Next]_vars => IInv'
<1> SUFFICES ASSUME IInv, [Next]_vars PROVE IInv'
  OBVIOUS
<1>1. ASSUME NEW parties \in Parties, NEW route \in Route, NEW amount \in Amounts,
             CreateEscrow(parties, route, amount)
      PROVE  IInv'
  BY <1>1, CreateStep
<1>2. ASSUME NEW caller \in Address, Configure(caller) \/ Guard(caller) PROVE IInv'
  BY <1>2, ConfigureStep, GuardStep
<1>3. ASSUME NEW caller \in Address, NEW id \in EscrowId, Dispute(caller, id) PROVE IInv'
  BY <1>3, VerificationStep, ChallengeStep, ResolveStep DEF Dispute
<1>4. ASSUME NEW caller \in Address, NEW id \in EscrowId, Settle(caller, id) PROVE IInv'
  BY <1>4, ReleaseStep, RefundStep, ExtendStep, RecoverStep DEF Settle
<1>5. ASSUME NEW caller \in Address, NEW ids \in Batches, NEW amount \in Payments,
             BatchRelease(caller, ids, amount)
      PROVE  IInv'
  BY <1>5, BatchStep
<1>6. ASSUME NEW caller \in Address, NEW amount \in Collections, CollectFees(caller, amount)
      PROVE  IInv'
  BY <1>6, CollectOrTickStep
<1>7. CASE Tick
  BY <1>7, CollectOrTickStep
<1>8. CASE UNCHANGED vars
  <2>1. UNCHANGED books /\ TypeOK'
    BY <1>8 DEF IInv, vars, books, TypeOK, Exists, ValidPanel
  <2>2. QED
    BY <2>1, BooksUnchanged
<1>9. QED
  BY <1>1, <1>2, <1>3, <1>4, <1>5, <1>6, <1>7, <1>8 DEF Next

\* The invariant holds in every reachable state.
LEMMA SpecIInv == Spec => []IInv
BY InitIInv, NextIInv, PTL DEF Spec

\* Every variable of the contract keeps its type, and ids are handed out in order.
THEOREM TypeCorrect == Spec => []TypeOK
<1>1. IInv => TypeOK
  BY DEF IInv
<1>2. QED
  BY <1>1, SpecIInv, PTL

\* Releases and refunds, in whatever order, pay each escrow's deposit less the fee
\* at most once, and exactly once when no emergency recovery interferes.
THEOREM SettlementExact == Spec => []ExactSettlement
<1>1. IInv => ExactSettlement
  BY DEF IInv
<1>2. QED
  BY <1>1, SpecIInv, PTL

\* Disputes end by the quorum their first vote fixed, and a challenged escrow pays
\* the recipient only after one that ended in favour of release.
THEOREM DisputesByQuorum == Spec => []DisputeQuorum
<1>1. IInv => DisputeQuorum
  BY DEF IInv
<1>2. QED
  BY <1>1, SpecIInv, PTL

\* Nothing is refunded from a verified escrow unless its challenge was upheld.
THEOREM RefundsJustified == Spec => []RefundJustified
<1>1. IInv => RefundJustified
  BY DEF IInv
<1>2. QED
  BY <1>1, SpecIInv, PTL

-----------------------------------------------------------------------------
\* Only a vote writes a dispute, and it writes it as the promise of stability asks.
LEMMA VoteStable ==
    ASSUME IInv, NEW caller \in Address, NEW id \in EscrowId, NEW release_allowed \in BOOLEAN,
           ResolveChallenge(caller, id, release_allowed), NEW i \in EscrowId, HasDispute(i)
    PROVE  /\ disputes'[i].decision_release = disputes[i].decision_release
           /\ disputes'[i].required_approvals = disputes[i].required_approvals
           /\ disputes[i].approvals \subseteq disputes'[i].approvals
           /\ disputes[i].resolved => disputes'[i] = disputes[i]
<1> DEFINE dispute == OpenDispute(id, release_allowed)
<1>1. TypeOK
  BY DEF IInv
<1>2. disputes' = [disputes EXCEPT ![id] = Approve(dispute, caller)] /\ ~dispute.resolved
  BY DEF ResolveChallenge
<1>3. CASE i # id
  BY <1>1, <1>2, <1>3 DEF TypeOK
<1>4. CASE i = id
  <2>1. dispute = disputes[i] /\ disputes'[i] = Approve(disputes[i], caller)
    BY <1>1, <1>2, <1>4 DEF OpenDispute, TypeOK
  <2>2. disputes[i] \in DisputeResolution
    BY <1>1 DEF TypeOK
  <2>3. QED
    BY <1>2, <2>1, <2>2 DEF Approve, DisputeResolution
<1>5. QED
  BY <1>3, <1>4

\* Votes only add approvers to the decision the first of them fixed.
THEOREM VotesStable == Spec => DecisionStable
<1> DEFINE A == \A id \in EscrowId :
                   HasDispute(id) =>
                     /\ disputes'[id].decision_release = disputes[id].decision_release
                     /\ disputes'[id].required_approvals = disputes[id].required_approvals
                     /\ disputes[id].approvals \subseteq disputes'[id].approvals
                     /\ disputes[id].resolved => disputes'[id] = disputes[id]
<1>1. disputes' = disputes => A
  OBVIOUS
<1>2. IInv /\ Next => A
  <2> SUFFICES ASSUME IInv, Next PROVE A
    OBVIOUS
  <2>1. ASSUME NEW caller \in Address, NEW id \in EscrowId, NEW release_allowed \in BOOLEAN,
               ResolveChallenge(caller, id, release_allowed)
        PROVE  A
    BY <2>1, VoteStable
  <2>2. ASSUME NEW caller \in Address, Configure(caller) \/ Guard(caller)
        PROVE  disputes' = disputes
    BY <2>2 DEF Configure, Guard, SetLockPeriod, SetFeeConfig, SetApprovers,
       SetBreakerGuardian, SetEmergencyPause, TripCircuitBreaker, ResetCircuitBreaker
  <2>3. ASSUME NEW caller \in Address, NEW id \in EscrowId, Dispute(caller, id)
        PROVE  A
    BY <2>1, <2>3, <1>1 DEF Dispute, SyncVerification, ChallengeEscrow
  <2>4. ASSUME NEW caller \in Address, NEW id \in EscrowId, Settle(caller, id)
        PROVE  disputes' = disputes
    BY <2>4 DEF Settle, ReleaseEscrow, RefundEscrow, ExtendLock, EmergencyRecover
  <2>5. ASSUME NEW caller \in Address, NEW ids \in Batches, NEW amount \in Payments,
               BatchRelease(caller, ids, amount)
        PROVE  disputes' = disputes
    BY <2>5 DEF BatchRelease
  <2>6. ASSUME NEW caller \in Address, NEW amount \in Collections, CollectFees(caller, amount)
        PROVE  disputes' = disputes
    BY <2>6 DEF CollectFees
  <2>7. ASSUME NEW parties \in Parties, NEW route \in Route, NEW amount \in Amounts,
               CreateEscrow(parties, route, amount)
        PROVE  disputes' = disputes
    BY <2>7 DEF CreateEscrow
  <2>8. Tick => disputes' = disputes
    BY DEF Tick
  <2> HIDE DEF A
  <2>9. QED
    BY <1>1, <2>2, <2>3, <2>4, <2>5, <2>6, <2>7, <2>8 DEF Next
<1>3. IInv /\ [Next]_vars => [A]_vars
  BY <1>2
<1>4. QED
  BY <1>3, SpecIInv, PTL DEF Spec, DecisionStable

-----------------------------------------------------------------------------
\* The fees of the escrows, as the sums of FundsConserved range over them.
FeeOfEach == [id \in EscrowId |-> escrows[id].fee_total]
FeesAccounted == accrued_fees + collected = SumFunctionOnSet(FeeOfEach, EscrowId)

\* A step that changes neither the fee of an escrow nor the fees accrued and collected
\* together.
FeesKept ==
    /\ accrued_fees' + collected' = accrued_fees + collected
    /\ \A id \in EscrowId : escrows'[id].fee_total = escrows[id].fee_total

\* The identifiers form a finite set.
LEMMA EscrowIdFinite == IsFiniteSet(EscrowId)
BY EscrowAssumption, FS_Interval DEF EscrowId

\* A payout leaves the fee of every escrow as it was.
LEMMA PayOutKeepsFee ==
    ASSUME NEW e \in EscrowDeposit, NEW amount
    PROVE  PayOut(e, amount).fee_total = e.fee_total
BY DEF PayOut, EscrowDeposit

\* Writing one record with the fee it had keeps all the fees.
LEMMA OneFeeKept ==
    ASSUME TypeOK, NEW id \in EscrowId, NEW e, e.fee_total = escrows[id].fee_total,
           escrows' = [escrows EXCEPT ![id] = e]
    PROVE  \A i \in EscrowId : escrows'[i].fee_total = escrows[i].fee_total
BY DEF TypeOK

\* Every call but create_escrow keeps the fees, as does time.
LEMMA OthersKeepFees ==
    ASSUME IInv, [Next]_vars
    PROVE  \/ FeesKept
           \/ \E parties \in Parties, route \in Route, amount \in Amounts :
                 CreateEscrow(parties, route, amount)
<1>1. TypeOK /\ \A id \in EscrowId : escrows[id] \in EscrowDeposit
  BY DEF IInv, TypeOK
<1> DEFINE Untouched == UNCHANGED <<accrued_fees, collected, escrows>>
<1>2. Untouched => FeesKept
  BY DEF FeesKept
<1>3. ASSUME NEW caller \in Address, Configure(caller) \/ Guard(caller) PROVE Untouched
  BY <1>3 DEF Configure, Guard, SetLockPeriod, SetFeeConfig, SetApprovers, SetBreakerGuardian,
     SetEmergencyPause, TripCircuitBreaker, ResetCircuitBreaker, ledger
<1>4. Tick \/ UNCHANGED vars => Untouched
  BY DEF Tick, vars, ledger
<1>5. ASSUME NEW caller \in Address, NEW id \in EscrowId, Dispute(caller, id)
      PROVE  FeesKept
  <2>1. UNCHANGED <<accrued_fees, collected>>
    BY <1>5 DEF Dispute, SyncVerification, ChallengeEscrow, ResolveChallenge, ledger
  <2>2. \A i \in EscrowId : escrows'[i].fee_total = escrows[i].fee_total
    <3>1. CASE \E verified \in BOOLEAN : SyncVerification(caller, id, verified)
      <4>1. PICK verified : escrows' = [escrows EXCEPT ![id].verified = verified]
        BY <3>1 DEF SyncVerification
      <4>2. [escrows[id] EXCEPT !.verified = verified].fee_total = escrows[id].fee_total
        BY <1>1 DEF EscrowDeposit
      <4> QED
        BY <1>1, <4>1, <4>2, OneFeeKept
    <3>2. CASE ChallengeEscrow(id) \/ \E r \in BOOLEAN : ResolveChallenge(caller, id, r)
      <4>1. PICK status : escrows' = [escrows EXCEPT ![id].status = status]
        BY <3>2 DEF ChallengeEscrow, ResolveChallenge
      <4>2. [escrows[id] EXCEPT !.status = status].fee_total = escrows[id].fee_total
        BY <1>1 DEF EscrowDeposit
      <4> QED
        BY <1>1, <4>1, <4>2, OneFeeKept
    <3> QED
      BY <1>5, <3>1, <3>2 DEF Dispute
  <2> QED
    BY <1>1, <2>1, <2>2 DEF FeesKept, TypeOK
<1>6. ASSUME NEW caller \in Address, NEW id \in EscrowId, Settle(caller, id)
      PROVE  FeesKept
  <2>1. UNCHANGED <<accrued_fees, collected>>
    BY <1>6 DEF Settle, ReleaseEscrow, RefundEscrow, ExtendLock, EmergencyRecover, ledger
  <2>2. \A i \in EscrowId : escrows'[i].fee_total = escrows[i].fee_total
    <3>1. CASE \E amount \in Payments :
                   ReleaseEscrow(caller, id, amount) \/ EmergencyRecover(caller, id, amount)
      <4>1. PICK amount : escrows' = [escrows EXCEPT ![id] = PayOut(escrows[id], amount)]
        BY <1>1, <3>1 DEF ReleaseEscrow, EmergencyRecover, TypeOK
      <4> QED
        BY <1>1, <4>1, PayOutKeepsFee, OneFeeKept
    <3>2. CASE RefundEscrow(caller, id)
      <4>1. escrows' = [escrows EXCEPT ![id].status = "Refunded"]
        BY <3>2 DEF RefundEscrow
      <4>2. [escrows[id] EXCEPT !.status = "Refunded"].fee_total = escrows[id].fee_total
        BY <1>1 DEF EscrowDeposit
      <4> QED
        BY <1>1, <4>1, <4>2, OneFeeKept
    <3>3. CASE \E secs \in LockChoices : ExtendLock(caller, id, secs)
      <4>1. PICK secs \in LockChoices : ExtendLock(caller, id, secs)
        BY <3>3
      <4> DEFINE until == SaturatingAdd(escrows[id].lock_until, secs)
      <4>2. escrows' = [escrows EXCEPT ![id].lock_until = until]
        BY <1>1, <4>1 DEF ExtendLock, TypeOK
      <4> HIDE DEF until
      <4>3. [escrows[id] EXCEPT !.lock_until = until].fee_total = escrows[id].fee_total
        BY <1>1 DEF EscrowDeposit
      <4> QED
        BY <1>1, <4>2, <4>3, OneFeeKept
    <3> QED
      BY <1>6, <3>1, <3>2, <3>3 DEF Settle
  <2> QED
    BY <1>1, <2>1, <2>2 DEF FeesKept, TypeOK
<1>7. ASSUME NEW caller \in Address, NEW ids \in Batches, NEW amount \in Payments,
             BatchRelease(caller, ids, amount)
      PROVE  FeesKept
  <2>1. UNCHANGED <<accrued_fees, collected>>
    BY <1>7 DEF BatchRelease
  <2>2. ASSUME NEW i \in EscrowId PROVE escrows'[i].fee_total = escrows[i].fee_total
    BY <1>1, <1>7, PayOutKeepsFee DEF BatchRelease
  <2> QED
    BY <1>1, <2>1, <2>2 DEF FeesKept, TypeOK
<1>8. ASSUME NEW caller \in Address, NEW amount \in Collections, CollectFees(caller, amount)
      PROVE  FeesKept
  BY <1>1, <1>8, EscrowAssumption DEF CollectFees, FeesKept, TypeOK
<1> HIDE DEF Untouched
<1> QED
  BY <1>2, <1>3, <1>4, <1>5, <1>6, <1>7, <1>8 DEF Next

\* A new escrow adds its fee to what accrued, and had none before.
LEMMA CreateKeepsAccount ==
    ASSUME IInv, NEW parties \in Parties, NEW route \in Route, NEW amount \in Amounts,
           CreateEscrow(parties, route, amount), IInv', FeesAccounted
    PROVE  FeesAccounted'
<1> DEFINE fee == FeeOf(amount, fee_bps)
<1>1. TypeOK /\ TypeOK' /\ \A i \in EscrowId : Unused(i)
  BY DEF IInv
<1>2. PICK id \in EscrowId : id = escrow_seq
  BY <1>1, EscrowAssumption DEF TypeOK, CreateEscrow, EscrowId
<1>3. escrows[id] = NoEscrow
  BY <1>1, <1>2, EscrowAssumption DEF TypeOK, EscrowId, Unused
<1>4. escrows' = [escrows EXCEPT ![id] = NewEscrow(parties, route, amount)]
  BY <1>2 DEF CreateEscrow
<1>5. /\ accrued_fees' = accrued_fees + fee
      /\ collected' = collected
  BY DEF CreateEscrow, ledger
<1>6. FeeOfEach[id] = 0 /\ FeeOfEach'[id] = fee
  BY <1>1, <1>3, <1>4 DEF FeeOfEach, NoEscrow, NewEscrow, TypeOK
<1>7. \A i \in EscrowId : FeeOfEach[i] \in Int /\ FeeOfEach'[i] \in Int
  <2>1. \A i \in EscrowId : FeeOfEach[i] \in Int
    BY <1>1 DEF TypeOK, EscrowDeposit, FeeOfEach
  <2>2. \A i \in EscrowId : FeeOfEach'[i] \in Int
    BY <1>1 DEF TypeOK, EscrowDeposit, FeeOfEach
  <2> QED
    BY ONLY <2>1, <2>2
<1>8. \A i \in EscrowId \ {id} : FeeOfEach'[i] = FeeOfEach[i]
  BY <1>1, <1>4 DEF FeeOfEach, TypeOK
<1>9. SumFunctionOnSet(FeeOfEach', EscrowId)
        = SumFunctionOnSet(FeeOfEach, EscrowId) + FeeOfEach'[id] - FeeOfEach[id]
  BY <1>7, <1>8, EscrowIdFinite, SumChange
<1>10. SumFunctionOnSet(FeeOfEach, EscrowId) \in Int /\ fee \in Int
  BY <1>6, <1>7, EscrowIdFinite, SumType
<1> QED
  BY <1>1, <1>5, <1>6, <1>9, <1>10, SMTT(30) DEF FeesAccounted, TypeOK

\* The fees accrued and collected are those of the escrows.
LEMMA FeesAlwaysAccounted == Spec => []FeesAccounted
<1>1. Init => FeesAccounted
  <2> SUFFICES ASSUME Init PROVE FeesAccounted
    OBVIOUS
  <2>1. \A id \in EscrowId : FeeOfEach[id] = 0
    BY DEF Init, FeeOfEach, NoEscrow
  <2>2. SumFunctionOnSet(FeeOfEach, EscrowId) = 0
    BY <2>1, EscrowIdFinite, SumConstantZero
  <2> QED
    BY <2>2 DEF Init, FeesAccounted
<1>2. IInv /\ FeesAccounted /\ [Next]_vars /\ IInv' => FeesAccounted'
  <2> SUFFICES ASSUME IInv, FeesAccounted, [Next]_vars, IInv' PROVE FeesAccounted'
    OBVIOUS
  <2>1. CASE FeesKept
    <3>1. \A id \in EscrowId : FeeOfEach'[id] = FeeOfEach[id]
      BY <2>1 DEF FeesKept, FeeOfEach
    <3>2. SumFunctionOnSet(FeeOfEach', EscrowId) = SumFunctionOnSet(FeeOfEach, EscrowId)
      BY <3>1, EscrowIdFinite, SumEqual
    <3> QED
      BY <2>1, <3>2 DEF FeesAccounted, FeesKept
  <2>2. ASSUME NEW parties \in Parties, NEW route \in Route, NEW amount \in Amounts,
               CreateEscrow(parties, route, amount)
        PROVE  FeesAccounted'
    BY <2>2, CreateKeepsAccount
  <2> QED
    BY <2>1, <2>2, OthersKeepFees
<1> QED
  BY <1>1, <1>2, SpecIInv, PTL DEF Spec

\* What the contract releases, refunds and keeps as fees is never more than was deposited
\* with it, and what it releases and recovers is not either, whatever the rates and in
\* whatever order escrows are created, paid, refunded and recovered and fees collected.
THEOREM FundsAreConserved == Spec => []FundsConserved
<1>1. IInv /\ FeesAccounted => FundsConserved
  <2> SUFFICES ASSUME IInv, FeesAccounted PROVE FundsConserved
    OBVIOUS
  <2> DEFINE settled == [id \in EscrowId |-> paid[id].released + paid[id].refunded]
             deposit == [id \in EscrowId |-> escrows[id].amount]
             both == [id \in EscrowId |-> settled[id] + FeeOfEach[id]]
             taken == [id \in EscrowId |-> paid[id].released + paid[id].recovered]
  <2>1. TypeOK /\ \A id \in EscrowId : ExactOK(id)
    BY IInvByRecord DEF RecordOK
  <2>2. ASSUME NEW id \in EscrowId
        PROVE  /\ settled[id] \in Int /\ FeeOfEach[id] \in Int /\ deposit[id] \in Int
               /\ settled[id] + FeeOfEach[id] <= deposit[id]
    <3>1. escrows[id] \in EscrowDeposit /\ paid[id] \in Payouts
      BY <2>1 DEF TypeOK
    <3>2. paid[id].released + paid[id].refunded <= escrows[id].amount - escrows[id].fee_total
      BY <2>1 DEF ExactOK, Releasable
    <3> QED
      BY <3>1, <3>2 DEF EscrowDeposit, Payouts, FeeOfEach
  <2>3. \A id \in EscrowId : both[id] \in Int /\ both[id] <= deposit[id]
    BY <2>2
  <2>4. \A id \in EscrowId : both[id] = settled[id] + FeeOfEach[id]
    OBVIOUS
  <2>11. ASSUME NEW id \in EscrowId
         PROVE  taken[id] \in Int /\ deposit[id] \in Int /\ taken[id] <= deposit[id]
    <3>1. escrows[id] \in EscrowDeposit /\ paid[id] \in Payouts
      BY <2>1 DEF TypeOK
    <3>2. paid[id].released + paid[id].recovered <= escrows[id].amount
      BY <2>1 DEF ExactOK
    <3> QED
      BY <3>1, <3>2 DEF EscrowDeposit, Payouts
  <2> HIDE DEF settled, deposit, both, taken
  <2>12. SumFunctionOnSet(taken, EscrowId) <= SumFunctionOnSet(deposit, EscrowId)
    BY <2>11, EscrowIdFinite, SumMonotonic
  <2>5. SumFunctionOnSet(both, EscrowId)
          = SumFunctionOnSet(settled, EscrowId) + SumFunctionOnSet(FeeOfEach, EscrowId)
    BY <2>2, <2>4, EscrowIdFinite, SumPlus
  <2>6. SumFunctionOnSet(both, EscrowId) <= SumFunctionOnSet(deposit, EscrowId)
    BY <2>2, <2>3, EscrowIdFinite, SumMonotonic
  <2>7. /\ SumFunctionOnSet(settled, EscrowId) \in Int
        /\ SumFunctionOnSet(deposit, EscrowId) \in Int
    BY <2>2, EscrowIdFinite, SumType
  <2>8. accrued_fees + collected = SumFunctionOnSet(FeeOfEach, EscrowId)
    BY DEF FeesAccounted
  <2>9. accrued_fees \in Nat /\ collected \in Nat
    BY <2>1 DEF TypeOK
  <2>10. SumFunctionOnSet(settled, EscrowId) + accrued_fees + collected
           <= SumFunctionOnSet(deposit, EscrowId)
    BY <2>5, <2>6, <2>7, <2>8, <2>9
  <2> QED
    BY <2>8, <2>10, <2>12 DEF FundsConserved, Total, SumFunction, FeeOfEach, settled, deposit, taken
<1> QED
  BY <1>1, SpecIInv, FeesAlwaysAccounted, PTL

-----------------------------------------------------------------------------
\* What SettlementGated says of one escrow.
GatedOK(id) ==
    /\ paid'[id].released + paid'[id].refunded > paid[id].released + paid[id].refunded
          => ~emergency_pause /\ ~breaker_tripped
    /\ paid'[id].released > paid[id].released =>
          /\ escrows[id].verified
          /\ escrows[id].lock_until <= now
          /\ escrows[id].status = "Pending"
    /\ paid'[id].recovered > paid[id].recovered => emergency_pause

\* A step that pays nothing from an escrow meets its gate.
LEMMA NothingPaid ==
    ASSUME TypeOK, NEW id \in EscrowId, paid'[id] = paid[id]
    PROVE  GatedOK(id)
BY DEF TypeOK, Payouts, GatedOK

\* A release meets the gate of settlement.
LEMMA ReleaseGated ==
    ASSUME TypeOK, NEW id \in EscrowId, NEW caller, NEW amount, SettlementLive,
           CanRelease(escrows[id], caller, amount),
           paid'[id] = [paid[id] EXCEPT !.released = @ + amount]
    PROVE  GatedOK(id)
<1>1. paid'[id].recovered = paid[id].recovered /\ paid[id].recovered \in Nat
  BY DEF TypeOK, Payouts
<1>2. ~emergency_pause /\ ~breaker_tripped
  BY DEF SettlementLive
<1>3. /\ escrows[id].verified /\ escrows[id].status = "Pending"
      /\ escrows[id].lock_until <= now
  BY DEF CanRelease, TypeOK, EscrowDeposit, Seconds
<1>4. ~ (paid'[id].recovered > paid[id].recovered)
  BY <1>1
<1> QED
  BY <1>2, <1>3, <1>4 DEF GatedOK

\* A refund meets the gate of settlement.
LEMMA RefundGated ==
    ASSUME TypeOK, NEW id \in EscrowId, SettlementLive, NEW amount,
           paid'[id] = [paid[id] EXCEPT !.refunded = @ + amount]
    PROVE  GatedOK(id)
<1>1. /\ paid'[id].recovered = paid[id].recovered /\ paid[id].recovered \in Nat
      /\ paid'[id].released = paid[id].released /\ paid[id].released \in Nat
  BY DEF TypeOK, Payouts
<1>2. ~emergency_pause /\ ~breaker_tripped
  BY DEF SettlementLive
<1>3. /\ ~ (paid'[id].recovered > paid[id].recovered)
      /\ ~ (paid'[id].released > paid[id].released)
  BY <1>1
<1> QED
  BY <1>2, <1>3 DEF GatedOK

\* A recovery meets the gate of settlement.
LEMMA RecoveryGated ==
    ASSUME TypeOK, NEW id \in EscrowId, emergency_pause, NEW amount,
           paid'[id] = [paid[id] EXCEPT !.recovered = @ + amount]
    PROVE  GatedOK(id)
<1>1. /\ paid'[id].released = paid[id].released /\ paid[id].released \in Nat
      /\ paid'[id].refunded = paid[id].refunded /\ paid[id].refunded \in Nat
  BY DEF TypeOK, Payouts
<1>2. /\ ~ (paid'[id].released > paid[id].released)
      /\ ~ (paid'[id].released + paid'[id].refunded > paid[id].released + paid[id].refunded)
  BY <1>1
<1> QED
  BY <1>2 DEF GatedOK

\* Every step meets the gate of settlement.
LEMMA StepGated ==
    ASSUME TypeOK, Next, NEW id \in EscrowId
    PROVE  GatedOK(id)
<1>1. ASSUME NEW caller \in Address, NEW i \in EscrowId, Settle(caller, i)
      PROVE  GatedOK(id)
  <2>1. ASSUME NEW amount \in Payments, ReleaseEscrow(caller, i, amount) PROVE GatedOK(id)
    <3>1. CASE i = id
      <4>1. paid'[id] = [paid[id] EXCEPT !.released = @ + amount]
        BY <2>1, <3>1 DEF ReleaseEscrow, TypeOK
      <4> QED
        BY <2>1, <3>1, <4>1, ReleaseGated DEF ReleaseEscrow
    <3>2. CASE i # id
      BY <2>1, <3>2, NothingPaid DEF ReleaseEscrow, TypeOK
    <3> QED
      BY <3>1, <3>2
  <2>2. CASE RefundEscrow(caller, i)
    <3>1. CASE i = id
      <4>1. PICK amount : paid' = [paid EXCEPT ![id].refunded = @ + amount]
        BY <2>2, <3>1 DEF RefundEscrow
      <4>2. paid'[id] = [paid[id] EXCEPT !.refunded = @ + amount]
        BY <4>1 DEF TypeOK
      <4> QED
        BY <2>2, <4>2, RefundGated DEF RefundEscrow
    <3>2. CASE i # id
      BY <2>2, <3>2, NothingPaid DEF RefundEscrow, TypeOK
    <3> QED
      BY <3>1, <3>2
  <2>3. ASSUME NEW amount \in Payments, EmergencyRecover(caller, i, amount) PROVE GatedOK(id)
    <3>1. CASE i = id
      <4>1. paid'[id] = [paid[id] EXCEPT !.recovered = @ + amount]
        BY <2>3, <3>1 DEF EmergencyRecover, TypeOK
      <4> QED
        BY <2>3, <4>1, RecoveryGated DEF EmergencyRecover
    <3>2. CASE i # id
      BY <2>3, <3>2, NothingPaid DEF EmergencyRecover, TypeOK
    <3> QED
      BY <3>1, <3>2
  <2>4. ASSUME NEW secs \in LockChoices, ExtendLock(caller, i, secs) PROVE GatedOK(id)
    BY <2>4, NothingPaid DEF ExtendLock, ledger
  <2> QED
    BY <1>1, <2>1, <2>2, <2>3, <2>4 DEF Settle
<1>2. ASSUME NEW caller \in Address, NEW ids \in Batches, NEW amount \in Payments,
             BatchRelease(caller, ids, amount)
      PROVE  GatedOK(id)
  <2> DEFINE due == Occurrences(ids, id) * amount
  <2>1. CASE id \in Range(ids)
    <3>1. /\ SettlementLive /\ CanRelease(escrows[id], caller, due)
          /\ paid'[id] = [paid[id] EXCEPT !.released = @ + due]
      BY <1>2, <2>1 DEF BatchRelease
    <3> HIDE DEF due
    <3> QED
      BY <3>1, ReleaseGated
  <2>2. CASE id \notin Range(ids)
    BY <1>2, <2>2, NothingPaid DEF BatchRelease
  <2> QED
    BY <2>1, <2>2
<1>3. ASSUME NEW caller \in Address, Configure(caller) \/ Guard(caller)
      PROVE  paid' = paid
  BY <1>3 DEF Configure, Guard, SetLockPeriod, SetFeeConfig, SetApprovers, SetBreakerGuardian,
     SetEmergencyPause, TripCircuitBreaker, ResetCircuitBreaker, ledger
<1>4. ASSUME NEW caller \in Address, NEW i \in EscrowId, Dispute(caller, i)
      PROVE  paid' = paid
  BY <1>4 DEF Dispute, SyncVerification, ChallengeEscrow, ResolveChallenge, ledger
<1>5. ASSUME NEW parties \in Parties, NEW route \in Route, NEW amount \in Amounts,
             CreateEscrow(parties, route, amount)
      PROVE  paid' = paid
  BY <1>5 DEF CreateEscrow, ledger
<1>6. ASSUME NEW caller \in Address, NEW amount \in Collections, CollectFees(caller, amount)
      PROVE  paid' = paid
  BY <1>6 DEF CollectFees
<1>7. Tick => paid' = paid
  BY DEF Tick, ledger
<1> QED
  BY <1>1, <1>2, <1>3, <1>4, <1>5, <1>6, <1>7, NothingPaid DEF Next

\* Neither a single call nor a batch releases or refunds under the pause or the breaker,
\* nor releases what is not verified, still locked or under challenge.
THEOREM SettlementIsGated == Spec => SettlementGated
<1> DEFINE A == \A id \in EscrowId : GatedOK(id)
<1>1. IInv /\ [Next]_vars => [A]_vars
  BY StepGated DEF IInv
<1>2. [][A]_vars => SettlementGated
  BY PTL DEF SettlementGated, GatedOK
<1> QED
  BY <1>1, <1>2, SpecIInv, PTL DEF Spec

-----------------------------------------------------------------------------
\* How often an id is among the first k of a batch.
Listed(ids, id, k) == Cardinality({j \in 1 .. k : ids[j] = id})

\* The records after the first k releases of a batch.
RecordsAfter(ids, amount, k) ==
    [id \in EscrowId |-> IF Listed(ids, id, k) = 0 THEN escrows[id]
                         ELSE PayOut(escrows[id], Listed(ids, id, k) * amount)]

\* A batch is a sequence of escrow identifiers.
LEMMA BatchType ==
    ASSUME NEW ids \in Batches
    PROVE  /\ Len(ids) \in Nat /\ DOMAIN ids = 1 .. Len(ids)
           /\ \A k \in 1 .. Len(ids) : ids[k] \in EscrowId
<1>1. PICK n \in 2 .. MaxBatch : ids \in [1 .. n -> EscrowId]
  BY DEF Batches
<1>2. ids \in Seq(EscrowId) /\ n \in Nat
  BY <1>1, EscrowAssumption
<1> QED
  BY <1>1, <1>2

\* How often an escrow is listed among the first entries of a batch.
LEMMA ListedCounts ==
    ASSUME NEW ids \in Batches, NEW id \in EscrowId
    PROVE  /\ Listed(ids, id, 0) = 0
           /\ Listed(ids, id, Len(ids)) = Occurrences(ids, id)
           /\ \A k \in 1 .. Len(ids) :
                 /\ Listed(ids, id, k - 1) \in Nat
                 /\ Listed(ids, id, k) =
                      Listed(ids, id, k - 1) + (IF ids[k] = id THEN 1 ELSE 0)
                 /\ Listed(ids, id, k) <= Occurrences(ids, id)
           /\ id \in Range(ids) <=> Occurrences(ids, id) # 0
<1> DEFINE places(k) == {j \in 1 .. k : ids[j] = id}
<1>1. Len(ids) \in Nat /\ DOMAIN ids = 1 .. Len(ids)
  BY BatchType
<1>2. ASSUME NEW k \in Nat PROVE IsFiniteSet(places(k)) /\ Listed(ids, id, k) \in Nat
  <2>1. IsFiniteSet(1 .. k)
    BY FS_Interval
  <2>2. IsFiniteSet(places(k))
    BY <2>1, FS_Subset
  <2> QED
    BY <2>2, FS_CardinalityType DEF Listed
<1>3. Listed(ids, id, 0) = 0
  <2>1. places(0) = {}
    OBVIOUS
  <2> QED
    BY <2>1, FS_EmptySet DEF Listed
<1>4. places(Len(ids)) = {j \in DOMAIN ids : ids[j] = id}
  BY <1>1
<1>5. Listed(ids, id, Len(ids)) = Occurrences(ids, id)
  BY <1>4 DEF Listed, Occurrences
<1>6. ASSUME NEW k \in 1 .. Len(ids)
      PROVE  /\ Listed(ids, id, k - 1) \in Nat
             /\ Listed(ids, id, k) = Listed(ids, id, k - 1) + (IF ids[k] = id THEN 1 ELSE 0)
             /\ Listed(ids, id, k) <= Occurrences(ids, id)
  <2>1. k - 1 \in Nat /\ k \in Nat
    BY <1>1
  <2>2. IsFiniteSet(places(k - 1)) /\ Listed(ids, id, k - 1) \in Nat
    BY <1>2, <2>1
  <2>3. Listed(ids, id, k) <= Occurrences(ids, id)
    <3>1. places(k) \subseteq places(Len(ids)) /\ IsFiniteSet(places(Len(ids)))
      BY <1>1, <1>2, <2>1
    <3>2. Cardinality(places(k)) <= Cardinality(places(Len(ids)))
      BY <3>1, FS_Subset
    <3> QED
      BY <1>5, <3>2 DEF Listed
  <2>4. CASE ids[k] = id
    <3>1. places(k) = places(k - 1) \cup {k} /\ k \notin places(k - 1)
      BY <2>1, <2>4
    <3> QED
      BY <2>2, <2>3, <2>4, <3>1, FS_AddElement DEF Listed
  <2>5. CASE ids[k] # id
    <3>1. places(k) = places(k - 1)
      BY <2>1, <2>5
    <3>2. Listed(ids, id, k) = Listed(ids, id, k - 1)
      BY <3>1 DEF Listed
    <3> QED
      BY <2>2, <2>3, <2>5, <3>2
  <2> QED
    BY <2>2, <2>3, <2>4, <2>5
<1>7. id \in Range(ids) <=> Occurrences(ids, id) # 0
  <2>1. id \in Range(ids) <=> places(Len(ids)) # {}
    BY <1>4 DEF Range
  <2>2. IsFiniteSet(places(Len(ids)))
    BY <1>1, <1>2
  <2>3. Cardinality(places(Len(ids))) = 0 <=> places(Len(ids)) = {}
    BY <2>2, FS_EmptySet
  <2> QED
    BY <1>5, <2>1, <2>3 DEF Listed
<1> QED
  BY <1>3, <1>5, <1>6, <1>7

\* Two payments in a row are one payment of both amounts.
LEMMA PayOutTwice ==
    ASSUME NEW e \in EscrowDeposit, e.status # "None", NEW a \in Nat, NEW b \in Nat
    PROVE  PayOut(PayOut(e, a), b) = PayOut(e, a + b)
<1> DEFINE f == PayOut(e, a)
           s == IF e.released_amount + a >= Releasable(e) THEN "Released" ELSE e.status
           t == IF e.released_amount + (a + b) >= Releasable(e) THEN "Released" ELSE e.status
<1>1. /\ f.released_amount = e.released_amount + a /\ Releasable(f) = Releasable(e)
      /\ f.status = s
  BY PayOutType
<1>2. f = [e EXCEPT !.released_amount = e.released_amount + a, !.status = s]
  BY DEF PayOut, EscrowDeposit
<1>3. e.released_amount \in Nat /\ Releasable(e) \in Int
  BY DEF EscrowDeposit, Releasable
<1>4. (IF f.released_amount + b >= Releasable(f) THEN "Released" ELSE f.status) = t
  BY <1>1, <1>3
<1>5. f.released_amount + b = e.released_amount + (a + b)
  BY <1>1, <1>3
<1>6. PayOut(f, b) = [f EXCEPT !.released_amount = e.released_amount + (a + b), !.status = t]
  <2>1. PayOut(f, b) = [f EXCEPT !.released_amount = f.released_amount + b,
                                 !.status = IF f.released_amount + b >= Releasable(f)
                                            THEN "Released" ELSE f.status]
    <3>1. f \in EscrowDeposit
      BY PayOutType
    <3> HIDE DEF f
    <3> QED
      BY <3>1 DEF PayOut, EscrowDeposit
  <2> HIDE DEF f, t
  <2> QED
    BY <1>4, <1>5, <2>1
<1>7. PayOut(e, a + b) = [e EXCEPT !.released_amount = e.released_amount + (a + b), !.status = t]
  BY DEF PayOut, EscrowDeposit
<1> HIDE DEF s, t
<1>8. [[e EXCEPT !.released_amount = e.released_amount + a, !.status = s]
           EXCEPT !.released_amount = e.released_amount + (a + b), !.status = t]
      = [e EXCEPT !.released_amount = e.released_amount + (a + b), !.status = t]
  BY DEF EscrowDeposit
<1> HIDE DEF f
<1> QED
  BY <1>2, <1>6, <1>7, <1>8 DEF f

\* One more release makes the next records of the batch.
LEMMA NextRecords ==
    ASSUME TypeOK, NEW ids \in Batches, NEW amount \in Nat, NEW k \in 1 .. Len(ids),
           escrows[ids[k]].status # "None"
    PROVE  RecordsAfter(ids, amount, k) =
             [RecordsAfter(ids, amount, k - 1) EXCEPT ![ids[k]] = PayOut(@, amount)]
<1> DEFINE before == RecordsAfter(ids, amount, k - 1)
           after == [before EXCEPT ![ids[k]] = PayOut(@, amount)]
<1>1. ids[k] \in EscrowId
  BY BatchType
<1>2. before = [i \in EscrowId |-> before[i]] /\ after = [i \in EscrowId |-> after[i]]
  BY DEF RecordsAfter
<1>3. ASSUME NEW i \in EscrowId PROVE RecordsAfter(ids, amount, k)[i] = after[i]
  <2>1. /\ Listed(ids, i, k - 1) \in Nat
        /\ Listed(ids, i, k) = Listed(ids, i, k - 1) + (IF ids[k] = i THEN 1 ELSE 0)
    BY ListedCounts
  <2>2. CASE ids[k] # i
    <3>1. after[i] = before[i]
      BY <1>2, <2>2
    <3>2. Listed(ids, i, k) = Listed(ids, i, k - 1)
      BY <2>1, <2>2
    <3> QED
      BY <3>1, <3>2 DEF RecordsAfter
  <2>3. CASE ids[k] = i
    <3> DEFINE m == Listed(ids, i, k - 1)
               e == escrows[i]
    <3>1. e \in EscrowDeposit /\ e.status # "None"
      BY <2>3 DEF TypeOK
    <3>2. after[i] = PayOut(before[i], amount)
      BY <1>1, <1>2, <2>3
    <3>3. Listed(ids, i, k) = m + 1 /\ m \in Nat /\ m + 1 # 0
      BY <2>1, <2>3
    <3>4. RecordsAfter(ids, amount, k)[i] = PayOut(e, (m + 1) * amount)
      BY <3>3 DEF RecordsAfter
    <3>5. CASE m = 0
      <4>1. before[i] = e
        BY <3>5 DEF RecordsAfter
      <4>2. (m + 1) * amount = amount
        BY <3>5
      <4> QED
        BY <3>2, <3>4, <4>1, <4>2
    <3>6. CASE m # 0
      <4>1. before[i] = PayOut(e, m * amount)
        BY <3>6 DEF RecordsAfter
      <4> HIDE DEF m, e
      <4>2. m * amount \in Nat /\ (m + 1) * amount = m * amount + amount
        <5>1. PICK l \in Nat, c \in Nat : l = m /\ c = amount
          BY <3>3, amount \in Nat
        <5>2. l * c \in Nat /\ (l + 1) * c = l * c + c
          BY ONLY l \in Nat, c \in Nat
        <5> QED
          BY ONLY <5>1, <5>2
      <4>3. PayOut(PayOut(e, m * amount), amount) = PayOut(e, m * amount + amount)
        BY <3>1, <4>2, PayOutTwice
      <4> QED
        BY <3>2, <3>4, <4>1, <4>2, <4>3
    <3> QED
      BY <3>5, <3>6
  <2> QED
    BY <2>2, <2>3
<1>4. RecordsAfter(ids, amount, k) = [i \in EscrowId |-> RecordsAfter(ids, amount, k)[i]]
  BY DEF RecordsAfter
<1> HIDE DEF after
<1>5. RecordsAfter(ids, amount, k) = after
  BY <1>2, <1>3, <1>4
<1> QED
  BY <1>5 DEF after

\* The function OneByOne defines has those records.
LEMMA OneByOneRecords ==
    ASSUME TypeOK, NEW ids \in Batches, NEW amount \in Nat,
           \A id \in Range(ids) : escrows[id].status # "None"
    PROVE  \A k \in 0 .. Len(ids) : OneByOne(ids, amount)[k] = RecordsAfter(ids, amount, k)
<1> DEFINE n == Len(ids)
           after == OneByOne(ids, amount)
           Step(g, k) == IF k = 0 THEN escrows
                         ELSE [g[k - 1] EXCEPT ![ids[k]] = PayOut(@, amount)]
           table == [k \in 0 .. n |-> RecordsAfter(ids, amount, k)]
<1>1. n \in Nat /\ DOMAIN ids = 1 .. n
  BY BatchType
<1>2. RecordsAfter(ids, amount, 0) = escrows
  BY ListedCounts DEF RecordsAfter, TypeOK
<1>3. ASSUME NEW k \in 1 .. n
      PROVE  RecordsAfter(ids, amount, k) =
               [RecordsAfter(ids, amount, k - 1) EXCEPT ![ids[k]] = PayOut(@, amount)]
  <2>1. ids[k] \in Range(ids)
    BY <1>1 DEF Range
  <2>2. escrows[ids[k]].status # "None"
    BY <2>1
  <2> HIDE DEF table, Step
  <2> QED
    BY <2>2, NextRecords
<1>4. ASSUME NEW k \in 0 .. n PROVE table[k] = Step(table, k)
  <2>1. CASE k = 0
    BY <1>2, <2>1
  <2>2. CASE k # 0
    <3>1. k \in 1 .. n /\ k - 1 \in 0 .. n
      BY <1>1, <2>2
    <3>2. table[k - 1] = RecordsAfter(ids, amount, k - 1)
      BY <3>1
    <3> QED
      BY <1>3, <2>2, <3>1, <3>2
  <2> QED
    BY <2>1, <2>2
<1>5. table = [k \in 0 .. n |-> Step(table, k)]
  <2>1. table = [k \in 0 .. n |-> table[k]]
    OBVIOUS
  <2> HIDE DEF table, Step
  <2> QED
    BY <1>4, <2>1
<1>6. after = [k \in 0 .. n |-> Step(after, k)]
  <2>1. \E g : g = [k \in 0 .. n |-> Step(g, k)]
    <3> HIDE DEF table, Step
    <3> QED
      BY <1>5
  <2>2. after = CHOOSE g : g = [k \in 0 .. n |-> Step(g, k)]
    BY DEF OneByOne
  <2> HIDE DEF Step, after
  <2> QED
    BY <2>1, <2>2
<1> DEFINE Good == {k \in Nat : k \in 0 .. n => after[k] = RecordsAfter(ids, amount, k)}
<1>7. 0 \in Good
  <2>1. 0 \in 0 .. n
    BY <1>1
  <2>2. after[0] = Step(after, 0)
    <3> HIDE DEF after, Step
    <3> QED
      BY <1>6, <2>1
  <2> QED
    BY <1>2, <2>2
<1>8. ASSUME NEW k \in Nat, k \in Good PROVE k + 1 \in Good
  <2> SUFFICES ASSUME k + 1 \in 0 .. n
               PROVE  after[k + 1] = RecordsAfter(ids, amount, k + 1)
    OBVIOUS
  <2>1. k \in 0 .. n /\ k + 1 \in 1 .. n /\ (k + 1) - 1 = k
    BY <1>1
  <2>2. after[k] = RecordsAfter(ids, amount, k)
    BY <1>8, <2>1
  <2>3. after[k + 1] = Step(after, k + 1)
    <3> HIDE DEF after, Step
    <3> QED
      BY <1>6
  <2>4. after[k + 1] = [after[k] EXCEPT ![ids[k + 1]] = PayOut(@, amount)]
    <3> HIDE DEF after
    <3> QED
      BY <2>1, <2>3
  <2>5. RecordsAfter(ids, amount, k + 1) =
          [RecordsAfter(ids, amount, k) EXCEPT ![ids[k + 1]] = PayOut(@, amount)]
    BY <1>3, <2>1
  <2> QED
    BY <2>2, <2>4, <2>5
<1>9. Nat \subseteq Good
  <2> HIDE DEF Good
  <2> QED
    BY <1>7, <1>8, NumberInduction
<1> HIDE DEF after
<1>10. \A k \in 0 .. n : after[k] = RecordsAfter(ids, amount, k)
  BY <1>1, <1>9
<1> QED
  BY <1>10 DEF after

\* A payment changes neither who may ask for one nor when.
LEMMA PayOutKeepsTerms ==
    ASSUME NEW e \in EscrowDeposit, NEW amount
    PROVE  /\ PayOut(e, amount).recipient = e.recipient
           /\ PayOut(e, amount).verified = e.verified
           /\ PayOut(e, amount).lock_until = e.lock_until
BY DEF PayOut, EscrowDeposit

\* In a batch that is accepted, each single release would have been accepted in its turn.
LEMMA EachAllowed ==
    ASSUME TypeOK, NEW caller \in Address, NEW ids \in Batches, NEW amount \in Nat,
           BatchRelease(caller, ids, amount), NEW k \in 1 .. Len(ids)
    PROVE  CanRelease(RecordsAfter(ids, amount, k - 1)[ids[k]], caller, amount)
<1> DEFINE id == ids[k]
           e == escrows[id]
           m == Listed(ids, id, k - 1)
           all == Occurrences(ids, id)
           now_e == RecordsAfter(ids, amount, k - 1)[id]
<1>1. id \in EscrowId /\ id \in Range(ids) /\ amount > 0
  BY BatchType DEF BatchRelease, Range
<1>2. CanRelease(e, caller, all * amount)
  BY <1>1 DEF BatchRelease
<1>3. e \in EscrowDeposit
  BY <1>1 DEF TypeOK
<1>4. m \in Nat /\ all \in Nat /\ m + 1 <= all
  BY <1>1, ListedCounts, OccurrencesType
<1>5. now_e = IF m = 0 THEN e ELSE PayOut(e, m * amount)
  BY <1>1 DEF RecordsAfter
<1> DEFINE paidNow == m * amount
           paidAll == all * amount
<1>6. paidNow \in Nat /\ paidNow + amount <= paidAll /\ paidAll \in Nat
  <2>1. (m + 1) * amount <= all * amount
    BY <1>4, SMTT(30)
  <2>2. (m + 1) * amount = m * amount + amount
    BY <1>4
  <2> QED
    BY <1>4, <2>1, <2>2, SMTT(30)
<1> HIDE DEF m, all, e, now_e, paidNow, paidAll
<1>7. /\ e.status = "Pending" /\ caller \in {e.recipient, Admin} /\ e.verified
      /\ now >= e.lock_until /\ paidAll <= Releasable(e) - e.released_amount
  BY <1>2 DEF CanRelease, paidAll
<1>8. e.released_amount \in Nat /\ Releasable(e) \in Int
  BY <1>3 DEF EscrowDeposit, Releasable
<1>9. CASE m = 0
  <2>1. now_e = e
    BY <1>5, <1>9
  <2>2. amount <= Releasable(e) - e.released_amount
    BY <1>6, <1>7, <1>8
  <2> QED
    BY <1>1, <1>7, <2>1, <2>2 DEF CanRelease, now_e
<1>10. CASE m # 0
  <2>1. now_e = PayOut(e, paidNow)
    BY <1>5, <1>10 DEF paidNow
  <2>2. /\ now_e.recipient = e.recipient /\ now_e.verified = e.verified
        /\ now_e.lock_until = e.lock_until
    BY <1>3, <2>1, PayOutKeepsTerms
  <2>3. /\ now_e.released_amount = e.released_amount + paidNow
        /\ Releasable(now_e) = Releasable(e)
        /\ now_e.status = IF e.released_amount + paidNow >= Releasable(e)
                          THEN "Released" ELSE e.status
    BY <1>3, <1>6, <1>7, <2>1, PayOutType
  <2>4. ~ (e.released_amount + paidNow >= Releasable(e))
    BY <1>1, <1>6, <1>7, <1>8
  <2>5. amount <= Releasable(e) - (e.released_amount + paidNow)
    BY <1>6, <1>7, <1>8
  <2>6. now_e.status = "Pending"
    BY <1>7, <2>3, <2>4
  <2> QED
    BY <1>1, <1>7, <2>2, <2>3, <2>5, <2>6 DEF CanRelease, now_e
<1> QED
  BY <1>9, <1>10

\* A batch is its releases, one after the other, though the model pays all occurrences of
\* an id at once: so the loop of batch_release may be read as either.
THEOREM BatchesAreSequences == Spec => BatchIsSequence
<1> DEFINE A == \A caller \in Address, ids \in Batches, amount \in Payments :
                  BatchRelease(caller, ids, amount) =>
                    LET after == OneByOne(ids, amount)
                    IN  /\ escrows' = after[Len(ids)]
                        /\ \A k \in DOMAIN ids : CanRelease(after[k - 1][ids[k]], caller, amount)
<1>1. ASSUME IInv, NEW caller \in Address, NEW ids \in Batches, NEW amount \in Payments,
             BatchRelease(caller, ids, amount)
      PROVE  /\ escrows' = OneByOne(ids, amount)[Len(ids)]
             /\ \A k \in DOMAIN ids :
                   CanRelease(OneByOne(ids, amount)[k - 1][ids[k]], caller, amount)
  <2>1. TypeOK /\ amount \in Nat
    BY <1>1, EscrowAssumption DEF IInv, BatchRelease
  <2>2. Len(ids) \in Nat /\ DOMAIN ids = 1 .. Len(ids)
    BY BatchType
  <2>3. \A id \in Range(ids) : escrows[id].status # "None"
    BY <1>1 DEF BatchRelease, CanRelease
  <2>4. \A k \in 0 .. Len(ids) : OneByOne(ids, amount)[k] = RecordsAfter(ids, amount, k)
    BY <2>1, <2>3, OneByOneRecords
  <2>5. escrows' = RecordsAfter(ids, amount, Len(ids))
    <3>1. ASSUME NEW id \in EscrowId
          PROVE  /\ Listed(ids, id, Len(ids)) = Occurrences(ids, id)
                 /\ id \in Range(ids) <=> Occurrences(ids, id) # 0
      BY ListedCounts
    <3>2. escrows' = [id \in EscrowId |-> IF id \in Range(ids)
                        THEN PayOut(escrows[id], Occurrences(ids, id) * amount)
                        ELSE escrows[id]]
      BY <1>1 DEF BatchRelease
    <3> QED
      BY <3>1, <3>2 DEF RecordsAfter
  <2>6. escrows' = OneByOne(ids, amount)[Len(ids)]
    BY <2>2, <2>4, <2>5
  <2>7. ASSUME NEW k \in DOMAIN ids
        PROVE  CanRelease(OneByOne(ids, amount)[k - 1][ids[k]], caller, amount)
    <3>1. k \in 1 .. Len(ids) /\ k - 1 \in 0 .. Len(ids)
      BY <2>2
    <3>2. OneByOne(ids, amount)[k - 1] = RecordsAfter(ids, amount, k - 1)
      BY <2>4, <3>1
    <3> QED
      BY <1>1, <2>1, <3>1, <3>2, EachAllowed
  <2> QED
    BY <2>6, <2>7
<1>2. IInv /\ [Next]_vars => [A]_vars
  BY <1>1
<1>3. [][A]_vars => BatchIsSequence
  BY PTL DEF BatchIsSequence
<1> QED
  BY <1>2, <1>3, SpecIInv, PTL DEF Spec

-----------------------------------------------------------------------------
(***************************************************************************)
(* The escrow contract implements the settlement promise.                  *)
(***************************************************************************)

stage == [id \in EscrowId |-> Stage(id)]
owed == [id \in EscrowId |-> Owed(id)]
received == [id \in EscrowId |-> paid[id].released]
returned == [id \in EscrowId |-> paid[id].refunded]

\* The promise sees nothing of the step happen to the escrow.
Unseen(id) ==
    /\ Stage(id)' = Stage(id) /\ Owed(id)' = Owed(id)
    /\ paid'[id].released = paid[id].released
    /\ paid'[id].refunded = paid[id].refunded

\* An escrow that does not change shows no change in the abstract state.
LEMMA SameUnseen ==
    ASSUME NEW id \in EscrowId, Same(id)
    PROVE  Unseen(id)
BY DEF Same, Unseen, Stage, Owed, Releasable

\* A step outside one escrow leaves the abstract state of the others.
LEMMA AbstractFrame ==
    ASSUME NEW id \in EscrowId, \A i \in EscrowId : i # id => Same(i)
    PROVE  /\ stage' = [stage EXCEPT ![id] = Stage(id)']
           /\ owed' = [owed EXCEPT ![id] = Owed(id)']
           /\ received' = [received EXCEPT ![id] = paid'[id].released]
           /\ returned' = [returned EXCEPT ![id] = paid'[id].refunded]
<1>1. \A i \in EscrowId : i # id => Unseen(i)
  BY SameUnseen
<1>2. QED
  BY <1>1 DEF Unseen, stage, owed, received, returned

\* A step that settles nothing is a stutter of the promise.
LEMMA Stutter ==
    ASSUME \A i \in EscrowId : Unseen(i)
    PROVE  UNCHANGED Promise!vars
BY DEF Promise!vars, Unseen

\* The initial state maps to an initial state of the promise.
LEMMA InitPromise == Init => Promise!Init
<1> SUFFICES ASSUME Init PROVE Promise!Init
  OBVIOUS
<1>1. \A i \in EscrowId : escrows[i].status = "None" /\ paid[i] = NoPayouts
  BY DEF Init, NoEscrow
<1>2. \A i \in EscrowId : /\ Stage(i) = "none" /\ Owed(i) = 0
                          /\ paid[i].released = 0 /\ paid[i].refunded = 0
  BY <1>1 DEF Stage, Owed, Open, NoPayouts
<1>3. QED
  BY <1>2 DEF Promise!Init

\* Creating an escrow implements a step of the promise.
LEMMA CreatePromise ==
    ASSUME IInv, NEW parties \in Parties, NEW route \in Route, NEW amount \in Amounts,
           CreateEscrow(parties, route, amount)
    PROVE  Promise!Next
<1> DEFINE new == NewEscrow(parties, route, amount)
<1>1. TypeOK /\ \A i \in EscrowId : RecordOK(i)
  BY IInvByRecord
<1>2. PICK id \in EscrowId : id = escrow_seq
  BY <1>1, EscrowAssumption DEF TypeOK, CreateEscrow, EscrowId
<1>3. ~Exists(id) /\ id \notin challenged /\ id \notin challenged' /\ paid' = paid
  <2>1. ~Exists(id)
    <3>1. escrow_seq \in Nat /\ ~(escrow_seq < escrow_seq)
      BY <1>1, EscrowAssumption DEF TypeOK
    <3>2. QED
      BY <1>1, <1>2, <3>1 DEF TypeOK
  <2>2. id \notin challenged
    BY <1>1, <2>1 DEF RecordOK, Unused, ChallengeRecorded
  <2>3. QED
    BY <2>1, <2>2 DEF CreateEscrow, ledger
<1>4. FeeOf(amount, fee_bps) \in Nat /\ FeeOf(amount, fee_bps) < amount /\ amount \in Nat
  BY <1>1, EscrowAssumption, FeeBelowDeposit DEF TypeOK, CreateEscrow
<1>5. /\ escrows'[id] = new /\ new.status = "Pending" /\ Releasable(new) > 0
      /\ new.released_amount = 0 /\ Releasable(new) \in Int
  BY <1>1, <1>2, <1>4 DEF TypeOK, CreateEscrow, NewEscrow, Releasable
<1> HIDE DEF new
<1>6. Stage(id) = "none" /\ Stage(id)' = "fresh" /\ Owed(id)' > 0
  <2>1. Stage(id) = "none" /\ Stage(id)' = "fresh"
    BY <1>3, <1>5 DEF Stage, Owed, Exists, Terminal
  <2>2. Owed(id)' = Releasable(new) - 0
    BY <1>5 DEF Owed, Open
  <2>3. QED
    BY <1>5, <2>1, <2>2
<1>7. \A i \in EscrowId : i # id => Same(i)
  <2>1. escrows' = [escrows EXCEPT ![id] = new] /\ UNCHANGED <<challenged, disputes, paid>>
    BY <1>2 DEF CreateEscrow, ledger, new
  <2>2. QED
    BY <1>1, <2>1 DEF Same, TypeOK
<1>8. Promise!Start(id)
  BY <1>3, <1>6, <1>7, AbstractFrame
     DEF Promise!Start, Promise!Becomes, stage, owed, received, returned
<1>9. QED
  BY <1>8 DEF Promise!Next

\* A challenge implements a step of the promise.
LEMMA ChallengePromise ==
    ASSUME IInv, NEW id \in EscrowId, ChallengeEscrow(id)
    PROVE  Promise!Next
<1> DEFINE f == [escrows[id] EXCEPT !.status = "Challenged"]
<1>1. TypeOK /\ escrows[id] \in EscrowDeposit
  BY IInvByRecord DEF TypeOK
<1>2. /\ escrows[id].status = "Pending" /\ id \notin challenged
      /\ escrows' = [escrows EXCEPT ![id] = f]
      /\ challenged' = challenged \cup {id} /\ paid' = paid /\ disputes' = disputes
  BY <1>1 DEF ChallengeEscrow, ledger, TypeOK
<1>3. /\ f.status = "Challenged" /\ Releasable(f) = Releasable(escrows[id])
      /\ f.released_amount = escrows[id].released_amount
  BY <1>1 DEF EscrowDeposit, Releasable
<1> HIDE DEF f
<1>4. escrows'[id] = f
  BY <1>1, <1>2 DEF TypeOK
<1>5. Stage(id) = "fresh" /\ Stage(id)' = "frozen" /\ Owed(id)' = Owed(id)
  <2>1. Stage(id) = "fresh"
    BY <1>2 DEF Stage, Owed, Terminal
  <2>2. Stage(id)' = "frozen"
    BY <1>3, <1>4 DEF Stage, Owed
  <2>3. Owed(id)' = Owed(id)
    BY <1>2, <1>3, <1>4 DEF Owed, Open
  <2>4. QED
    BY <2>1, <2>2, <2>3
<1>6. \A i \in EscrowId : i # id => Same(i)
  BY <1>1, <1>2 DEF Same, TypeOK
<1>7. Promise!Freeze(id)
  BY <1>2, <1>5, <1>6, AbstractFrame
     DEF Promise!Freeze, Promise!Becomes, stage, owed, received, returned
<1>8. QED
  BY <1>7 DEF Promise!Next

\* A vote clears the escrow when it resolves the dispute in favour of release;
\* any other vote changes nothing the promise speaks of.
LEMMA ResolvePromise ==
    ASSUME IInv, NEW caller \in Address, NEW id \in EscrowId, NEW release_allowed \in BOOLEAN,
           ResolveChallenge(caller, id, release_allowed)
    PROVE  Promise!Next \/ UNCHANGED Promise!vars
<1> DEFINE decided == Approve(OpenDispute(id, release_allowed), caller)
           clears == decided.resolved /\ release_allowed
           f == [escrows[id] EXCEPT !.status = IF clears THEN "Pending" ELSE @]
<1>1. TypeOK /\ escrows[id] \in EscrowDeposit /\ id \in challenged
  BY IInvByRecord DEF TypeOK, RecordOK, ChallengeRecorded, ResolveChallenge
<1>2. /\ escrows[id].status = "Challenged"
      /\ escrows' = [escrows EXCEPT ![id] = f]
      /\ challenged' = challenged /\ paid' = paid
      /\ \A i \in EscrowId : i # id => disputes'[i] = disputes[i]
  BY <1>1 DEF ResolveChallenge, ledger, TypeOK
<1> HIDE DEF clears
<1>3. /\ f.status = IF clears THEN "Pending" ELSE "Challenged"
      /\ Releasable(f) = Releasable(escrows[id])
      /\ f.released_amount = escrows[id].released_amount
  BY <1>1, <1>2 DEF EscrowDeposit, Releasable
<1> HIDE DEF f
<1>4. escrows'[id] = f
  BY <1>1, <1>2 DEF TypeOK
<1>5. /\ Stage(id) = "frozen" /\ Owed(id)' = Owed(id)
      /\ Stage(id)' = IF clears THEN "cleared" ELSE "frozen"
  BY <1>1, <1>2, <1>3, <1>4 DEF Stage, Owed, Terminal, Open
<1>6. \A i \in EscrowId : i # id => Same(i)
  BY <1>1, <1>2 DEF Same, TypeOK
<1>7. CASE clears
  <2>1. Promise!Clear(id)
    BY <1>2, <1>5, <1>6, <1>7, AbstractFrame
       DEF Promise!Clear, Promise!Becomes, stage, owed, received, returned
  <2>2. QED
    BY <2>1 DEF Promise!Next
<1>8. CASE ~clears
  <2>1. Unseen(id)
    BY <1>2, <1>5, <1>8 DEF Unseen
  <2>2. QED
    BY <1>6, <2>1, SameUnseen, Stutter
<1>9. QED
  BY <1>7, <1>8

\* A release takes its amount from a free escrow that owes as much.
LEMMA ReleasedPart ==
    ASSUME TypeOK, NEW id \in EscrowId, NEW caller \in Address, NEW amount \in Int,
           CanRelease(escrows[id], caller, amount), Released(id, amount)
    PROVE  /\ Stage(id) \in Promise!Free
           /\ amount \in 1 .. Owed(id)
           /\ Owed(id) \in Int
           /\ Owed(id)' = Owed(id) - amount
           /\ Stage(id)' = IF Owed(id) = amount THEN "closed" ELSE Stage(id)
           /\ paid'[id].released = paid[id].released + amount
           /\ paid'[id].refunded = paid[id].refunded
           /\ paid[id].released \in Nat
<1> DEFINE e == escrows[id]
           f == PayOut(e, amount)
<1>1. /\ e \in EscrowDeposit /\ paid[id] \in Payouts /\ e.status = "Pending"
      /\ amount \in Nat /\ amount > 0 /\ amount <= Releasable(e) - e.released_amount
  BY DEF TypeOK, CanRelease
<1>2. /\ f.released_amount = e.released_amount + amount
      /\ Releasable(f) = Releasable(e)
      /\ f.status = IF e.released_amount + amount >= Releasable(e)
                    THEN "Released" ELSE "Pending"
  BY <1>1, PayOutType
<1>3. /\ escrows'[id] = f
      /\ id \in challenged' <=> id \in challenged
      /\ Releasable(e) \in Int /\ e.released_amount \in Int
  BY <1>1 DEF Released, Releasable, EscrowDeposit
<1> HIDE DEF f
<1>4. /\ Stage(id) = IF id \in challenged THEN "cleared" ELSE "fresh"
      /\ Owed(id) = Releasable(e) - e.released_amount
  BY <1>1 DEF Stage, Owed, Open, Terminal
<1>5. Owed(id)' = Owed(id) - amount
  <2>1. CASE f.status = "Released"
    <3>1. Owed(id)' = 0
      BY <1>3, <2>1 DEF Owed, Open
    <3>2. QED
      BY <1>1, <1>2, <1>3, <1>4, <2>1, <3>1
  <2>2. CASE f.status # "Released"
    <3>1. Owed(id)' = Releasable(f) - f.released_amount
      BY <1>2, <1>3, <2>2 DEF Owed, Open
    <3>2. QED
      BY <1>1, <1>2, <1>3, <1>4, <3>1
  <2>3. QED
    BY <2>1, <2>2
<1>6. Stage(id)' = IF Owed(id) = amount THEN "closed" ELSE Stage(id)
  <2>1. f.status = IF Owed(id) = amount THEN "Released" ELSE "Pending"
    BY <1>1, <1>2, <1>3, <1>4
  <2>2. QED
    BY <1>3, <1>4, <2>1 DEF Stage, Owed, Terminal
<1>7. /\ paid'[id].released = paid[id].released + amount
      /\ paid'[id].refunded = paid[id].refunded /\ paid[id].released \in Nat
  BY <1>1 DEF Released, Payouts
<1>8. Stage(id) \in Promise!Free /\ amount \in 1 .. Owed(id) /\ Owed(id) \in Int
  <2>1. Stage(id) \in Promise!Free
    BY <1>4 DEF Promise!Free
  <2>2. QED
    BY <1>1, <1>3, <1>4, <2>1
<1>9. QED
  BY <1>5, <1>6, <1>7, <1>8

\* A call that releases part of what it owes from each escrow of a set, and does
\* nothing to the others, is a payment of the promise.
LEMMA SomePaid ==
    ASSUME TypeOK, NEW payers \in SUBSET EscrowId, payers # {},
           NEW part \in [payers -> Int], NEW caller \in Address,
           \A i \in payers : CanRelease(escrows[i], caller, part[i]) /\ Released(i, part[i]),
           \A i \in EscrowId \ payers : Unseen(i)
    PROVE  Promise!Next
<1>1. \A i \in payers :
         /\ Stage(i) \in Promise!Free
         /\ part[i] \in 1 .. Owed(i) /\ Owed(i) \in Int
         /\ Owed(i)' = Owed(i) - part[i]
         /\ Stage(i)' = IF Owed(i) = part[i] THEN "closed" ELSE Stage(i)
         /\ paid'[i].released = paid[i].released + part[i]
         /\ paid'[i].refunded = paid[i].refunded
         /\ paid[i].released \in Nat
  BY ReleasedPart
<1>2. \A i \in EscrowId : Owed(i) \in Int /\ paid[i].released \in Int
  BY SMTT(30) DEF TypeOK, Owed, Releasable, EscrowDeposit, Payouts
<1>3. \A i \in EscrowId : i \in payers <=> paid'[i].released # paid[i].released
  <2>1. ASSUME NEW i \in payers PROVE paid'[i].released # paid[i].released
    BY <1>1
  <2>2. ASSUME NEW i \in EscrowId \ payers PROVE paid'[i].released = paid[i].released
    BY DEF Unseen
  <2>3. QED
    BY <2>1, <2>2
<1>4. \A i \in payers : paid'[i].released - paid[i].released = part[i]
  BY <1>1
<1>5. \A i \in EscrowId \ payers : paid'[i].released - paid[i].released = 0
  BY <1>2 DEF Unseen
<1>6. \A i \in EscrowId :
         /\ paid'[i].refunded = paid[i].refunded
         /\ Owed(i)' = Owed(i) - (paid'[i].released - paid[i].released)
         /\ Stage(i)' = IF i \in payers /\ Owed(i) = paid'[i].released - paid[i].released
                        THEN "closed" ELSE Stage(i)
  <2>1. ASSUME NEW i \in payers
        PROVE  /\ paid'[i].refunded = paid[i].refunded
               /\ Owed(i)' = Owed(i) - (paid'[i].released - paid[i].released)
               /\ Stage(i)' = IF Owed(i) = paid'[i].released - paid[i].released
                              THEN "closed" ELSE Stage(i)
    BY <1>1, <1>4
  <2>2. ASSUME NEW i \in EscrowId \ payers
        PROVE  /\ paid'[i].refunded = paid[i].refunded
               /\ Owed(i)' = Owed(i) - (paid'[i].released - paid[i].released)
               /\ Stage(i)' = Stage(i)
    BY <1>2, <1>5 DEF Unseen
  <2>3. QED
    BY <2>1, <2>2
<1>7. Promise!Pay
  <2>1. {i \in EscrowId : received'[i] # received[i]} = payers
    BY <1>3 DEF received
  <2>2. QED
    BY <1>1, <1>4, <1>6, <2>1 DEF Promise!Pay, received
<1>8. QED
  BY <1>7 DEF Promise!Next

\* A release implements a step of the promise.
LEMMA ReleasePromise ==
    ASSUME IInv, NEW caller \in Address, NEW id \in EscrowId, NEW amount \in Payments,
           ReleaseEscrow(caller, id, amount)
    PROVE  Promise!Next
<1> DEFINE part == [i \in {id} |-> amount]
<1>1. TypeOK /\ amount \in Int
  BY IInvByRecord, EscrowAssumption
<1>2. CanRelease(escrows[id], caller, amount) /\ Released(id, amount)
  BY <1>1 DEF ReleaseEscrow, Released, TypeOK
<1>3. \A i \in EscrowId \ {id} : Unseen(i)
  <2>1. \A i \in EscrowId \ {id} : Same(i)
    BY <1>1 DEF ReleaseEscrow, TypeOK, Same
  <2>2. QED
    BY <2>1, SameUnseen
<1>4. part \in [{id} -> Int] /\ part[id] = amount /\ {id} \in SUBSET EscrowId
  BY <1>1
<1> HIDE DEF part
<1>5. QED
  BY <1>1, <1>2, <1>3, <1>4, SomePaid

\* A batch implements a step of the promise.
LEMMA BatchPromise ==
    ASSUME IInv, NEW caller \in Address, NEW ids \in Batches, NEW amount \in Payments,
           BatchRelease(caller, ids, amount)
    PROVE  Promise!Next
<1> DEFINE due(id) == Occurrences(ids, id) * amount
           part == [i \in Range(ids) |-> due(i)]
<1>1. TypeOK /\ amount \in Int
  BY IInvByRecord, EscrowAssumption
<1>2. Range(ids) \in SUBSET EscrowId /\ Range(ids) # {}
  <2>1. PICK n \in 2 .. MaxBatch : ids \in [1 .. n -> EscrowId]
    BY DEF Batches
  <2>2. 1 \in DOMAIN ids
    BY <2>1, EscrowAssumption
  <2>3. QED
    BY <2>1, <2>2 DEF Range
<1>3. ASSUME NEW i \in EscrowId PROVE due(i) \in Int
  BY <1>1, OccurrencesType
<1>4. ASSUME NEW i \in Range(ids)
      PROVE  CanRelease(escrows[i], caller, due(i)) /\ Released(i, due(i))
  BY <1>2 DEF BatchRelease, Released
<1>5. ASSUME NEW i \in EscrowId \ Range(ids) PROVE Unseen(i)
  <2>1. Same(i)
    BY DEF BatchRelease, Same
  <2>2. QED
    BY <2>1, SameUnseen
<1> HIDE DEF due
<1>6. part \in [Range(ids) -> Int] /\ \A i \in Range(ids) : part[i] = due(i)
  BY <1>2, <1>3
<1> HIDE DEF part
<1>7. QED
  BY <1>1, <1>2, <1>4, <1>5, <1>6, SomePaid

\* A refund implements a step of the promise.
LEMMA RefundPromise ==
    ASSUME IInv, NEW caller \in Address, NEW id \in EscrowId, RefundEscrow(caller, id)
    PROVE  Promise!Next
<1> DEFINE e == escrows[id]
           refund == e.amount - e.released_amount - e.fee_total
           f == [e EXCEPT !.status = "Refunded"]
           out == [paid[id] EXCEPT !.refunded = @ + refund]
<1>1. TypeOK /\ e \in EscrowDeposit /\ paid[id] \in Payouts
  BY IInvByRecord DEF TypeOK
<1>2. /\ e.status \in Open
      /\ escrows' = [escrows EXCEPT ![id] = f] /\ paid' = [paid EXCEPT ![id] = out]
      /\ disputes' = disputes /\ challenged' = challenged
  BY <1>1 DEF RefundEscrow, TypeOK
<1>3. /\ f.status = "Refunded" /\ out.released = paid[id].released
      /\ out.refunded = paid[id].refunded + refund
      /\ Releasable(e) - e.released_amount = refund
  BY <1>1 DEF EscrowDeposit, Payouts, Releasable
<1> HIDE DEF f, out, refund
<1>4. escrows'[id] = f /\ paid'[id] = out
  BY <1>1, <1>2 DEF TypeOK
<1>5. /\ Stage(id) \in Promise!Free \cup {"frozen"} /\ Owed(id) = refund
      /\ Stage(id)' = "closed" /\ Owed(id)' = 0
  BY <1>2, <1>3, <1>4 DEF Stage, Owed, Open, Terminal, Promise!Free
<1>6. \A i \in EscrowId : i # id => Same(i)
  BY <1>1, <1>2 DEF Same, TypeOK
<1>7. paid'[id].released = paid[id].released /\ paid'[id].refunded = paid[id].refunded + Owed(id)
  BY <1>3, <1>4, <1>5
<1>8. Promise!Return(id)
  BY <1>5, <1>6, <1>7, AbstractFrame
     DEF Promise!Return, Promise!Becomes, stage, owed, received, returned
<1>9. QED
  BY <1>8 DEF Promise!Next

\* A recovery from an open escrow lowers what it owes, one from a closed escrow
\* changes nothing the promise speaks of.
LEMMA RecoverPromise ==
    ASSUME IInv, NEW caller \in Address, NEW id \in EscrowId, NEW amount \in Payments,
           EmergencyRecover(caller, id, amount)
    PROVE  Promise!Next \/ UNCHANGED Promise!vars
<1> DEFINE e == escrows[id]
           f == PayOut(e, amount)
           out == [paid[id] EXCEPT !.recovered = @ + amount]
<1>1. TypeOK /\ RecordOK(id) /\ e \in EscrowDeposit /\ paid[id] \in Payouts
  BY IInvByRecord DEF TypeOK
<1>2. /\ Exists(id) /\ amount > 0 /\ amount \in Nat
      /\ escrows' = [escrows EXCEPT ![id] = f] /\ paid' = [paid EXCEPT ![id] = out]
      /\ disputes' = disputes /\ challenged' = challenged
  BY <1>1, EscrowAssumption DEF EmergencyRecover, TypeOK
<1>3. /\ f.released_amount = e.released_amount + amount
      /\ Releasable(f) = Releasable(e)
      /\ f.status = IF e.released_amount + amount >= Releasable(e)
                    THEN "Released" ELSE e.status
  BY <1>1, <1>2, PayOutType DEF Exists
<1>4. out.released = paid[id].released /\ out.refunded = paid[id].refunded
  BY <1>1 DEF Payouts
<1> HIDE DEF f, out
<1>5. escrows'[id] = f /\ paid'[id] = out
  BY <1>1, <1>2 DEF TypeOK
<1>6. \A i \in EscrowId : i # id => Same(i)
  BY <1>1, <1>2 DEF Same, TypeOK
<1>7. Releasable(e) \in Int /\ e.released_amount \in Nat
  BY <1>1 DEF Releasable, EscrowDeposit
<1>8. CASE e.status \in Open
  <2>1. e.released_amount < Releasable(e)
    BY <1>1, <1>8 DEF RecordOK, ExactOK
  <2>2. Stage(id) \in Promise!Free \cup {"frozen"} /\ Owed(id) = Releasable(e) - e.released_amount
    BY <1>8 DEF Stage, Owed, Open, Terminal, Promise!Free
  <2>3. Owed(id)' \in 0 .. Owed(id) /\ Stage(id)' = IF Owed(id)' = 0 THEN "closed" ELSE Stage(id)
    <3>1. CASE e.released_amount + amount >= Releasable(e)
      <4>1. Stage(id)' = "closed" /\ Owed(id)' = 0
        BY <1>3, <1>5, <3>1 DEF Stage, Owed, Open, Terminal
      <4>2. QED
        BY <1>7, <2>1, <2>2, <4>1
    <3>2. CASE ~(e.released_amount + amount >= Releasable(e))
      <4>1. f.status = e.status
        BY <1>3, <3>2
      <4>2. Stage(id)' = Stage(id)
        BY <1>2, <1>5, <4>1 DEF Stage, Owed
      <4>3. Owed(id)' = Releasable(e) - (e.released_amount + amount)
        BY <1>3, <1>5, <1>8, <4>1 DEF Owed
      <4>4. QED
        BY <1>2, <1>7, <2>2, <3>2, <4>2, <4>3
    <3>3. QED
      BY <3>1, <3>2
  <2>4. Promise!Rescue(id)
    BY <1>4, <1>5, <1>6, <2>2, <2>3, AbstractFrame, ZenonT(40)
       DEF Promise!Rescue, Promise!Becomes, stage, owed, received, returned
  <2>5. QED
    BY <2>4 DEF Promise!Next
<1>9. CASE e.status \notin Open
  <2>1. e.status \in Terminal
    BY <1>1, <1>2, <1>9 DEF EscrowDeposit, Exists
  <2>2. f.status \in Terminal
    BY <1>3, <2>1 DEF Terminal
  <2>3. Unseen(id)
    BY <1>4, <1>5, <2>1, <2>2 DEF Unseen, Stage, Owed, Open, Terminal
  <2>4. QED
    BY <1>6, <2>3, SameUnseen, Stutter
<1>10. QED
  BY <1>8, <1>9

\* The calls that change an escrow's verdict or lock, or no escrow at all.
LEMMA UnseenCalls ==
    ASSUME IInv, NEW caller \in Address,
           \/ Configure(caller) \/ Guard(caller)
           \/ \E id \in EscrowId, v \in BOOLEAN : SyncVerification(caller, id, v)
           \/ \E id \in EscrowId, secs \in LockChoices : ExtendLock(caller, id, secs)
           \/ \E amount \in Collections : CollectFees(caller, amount)
           \/ Tick \/ UNCHANGED vars
    PROVE  UNCHANGED Promise!vars
<1>1. TypeOK
  BY DEF IInv
<1>2. ASSUME NEW id \in EscrowId, NEW v \in BOOLEAN, SyncVerification(caller, id, v),
             NEW i \in EscrowId
      PROVE  Unseen(i)
  BY <1>1, <1>2 DEF SyncVerification, TypeOK, EscrowDeposit, ledger, Unseen, Stage, Owed,
     Releasable
<1>3. ASSUME NEW id \in EscrowId, NEW secs \in LockChoices, ExtendLock(caller, id, secs),
             NEW i \in EscrowId
      PROVE  Unseen(i)
  BY <1>1, <1>3 DEF ExtendLock, TypeOK, EscrowDeposit, ledger, Unseen, Stage, Owed, Releasable
<1>4. ASSUME UNCHANGED books, NEW i \in EscrowId PROVE Unseen(i)
  BY <1>4 DEF books, Unseen, Stage, Owed, Releasable
<1>5. ASSUME \/ Configure(caller) \/ Guard(caller) \/ Tick \/ UNCHANGED vars
             \/ \E amount \in Collections : CollectFees(caller, amount)
      PROVE  UNCHANGED books
  BY <1>5 DEF Configure, Guard, Tick, vars, CollectFees, SetLockPeriod, SetFeeConfig,
     SetApprovers, SetBreakerGuardian, SetEmergencyPause, TripCircuitBreaker,
     ResetCircuitBreaker, books, ledger
<1>6. QED
  BY <1>2, <1>3, <1>4, <1>5, Stutter

\* Every step implements a step of the promise or a stutter.
LEMMA StepPromise == IInv /\ [Next]_vars => Promise!Next \/ UNCHANGED Promise!vars
<1> SUFFICES ASSUME IInv, [Next]_vars PROVE Promise!Next \/ UNCHANGED Promise!vars
  OBVIOUS
<1>1. ASSUME NEW parties \in Parties, NEW route \in Route, NEW amount \in Amounts,
             CreateEscrow(parties, route, amount)
      PROVE  Promise!Next
  BY <1>1, CreatePromise
<1>2. ASSUME NEW caller \in Address, Configure(caller) \/ Guard(caller)
      PROVE  UNCHANGED Promise!vars
  BY <1>2, UnseenCalls
<1>3. ASSUME NEW caller \in Address, NEW id \in EscrowId, Dispute(caller, id)
      PROVE  Promise!Next \/ UNCHANGED Promise!vars
  BY <1>3, UnseenCalls, ChallengePromise, ResolvePromise DEF Dispute
<1>4. ASSUME NEW caller \in Address, NEW id \in EscrowId, Settle(caller, id)
      PROVE  Promise!Next \/ UNCHANGED Promise!vars
  BY <1>4, UnseenCalls, ReleasePromise, RefundPromise, RecoverPromise DEF Settle
<1>5. ASSUME NEW caller \in Address, NEW ids \in Batches, NEW amount \in Payments,
             BatchRelease(caller, ids, amount)
      PROVE  Promise!Next
  BY <1>5, BatchPromise
<1>6. ASSUME NEW caller \in Address, NEW amount \in Collections, CollectFees(caller, amount)
      PROVE  UNCHANGED Promise!vars
  BY <1>6, UnseenCalls
<1>7. CASE Tick \/ UNCHANGED vars
  BY <1>7, UnseenCalls, EscrowAssumption
<1>8. QED
  BY <1>1, <1>2, <1>3, <1>4, <1>5, <1>6, <1>7 DEF Next

\* Every behaviour of the escrow contract is one the promise allows: an escrow pays
\* its recipient only from what it owes and never while challenged, returns the
\* rest at most once, is challenged at most once, and stays closed once closed.
THEOREM EscrowKeepsPromise == Spec => KeepsPromise
<1>1. IInv /\ [Next]_vars => [Promise!Next]_Promise!vars
  BY StepPromise
<1>2. QED
  BY InitPromise, <1>1, SpecIInv, PTL DEF Spec, KeepsPromise, Promise!Spec
=============================================================================
